---- MODULE Spec2Model ----
(***************************************************************************)
(* Content-addressed media storage: the filesystem blob repository with    *)
(* its flock-based advisory locks, the media service (Store, Fetch,        *)
(* Delete with the backref index) and the image service (derivative        *)
(* cache) layered on it.                                                   *)
(*                                                                         *)
(* Byte strings are sequences of symbols; a symbol is a TLA+ string that   *)
(* stands for one byte, except that a whole Crockford-Base32 digest is one *)
(* symbol (its inner structure plays no role in the services).             *)
(***************************************************************************)
EXTENDS Naturals, Sequences, FiniteSets, TLC

(***************************************************************************)
(* Bounds of the model.                                                    *)
(***************************************************************************)
\* tasks that use the Lock API of one repository directly (SpecLock)
LockTasks == 3
\* tasks that run one service operation each, concurrently (Spec)
ConcTasks == 3
\* tasks that store the same media again and again, concurrently (SpecSame)
SameTasks == 2
\* tasks that delete the same media concurrently (SpecDel)
DelTasks == 2
\* tasks that run one call each, with fair scheduling (SpecFair)
FairTasks == 2
\* the configured upload ceiling MEDIA_MAX_SIZE, scaled down
MaxSize == 2

(***************************************************************************)
(* Byte strings.                                                           *)
(***************************************************************************)
NL == "\\n"
InvalidByte == "\\xFF"
ReplacementRune == "\\uFFFD"
ZeroByte == "\\x00"

RECURSIVE Concat(_)
Concat(s) == IF s = <<>> THEN "" ELSE Head(s) \o Concat(Tail(s))

\* bytes.Join(parts, sep)
RECURSIVE Join(_, _)
Join(parts, sep) ==
  IF parts = <<>> THEN <<>>
  ELSE IF Len(parts) = 1 THEN parts[1]
  ELSE parts[1] \o sep \o Join(Tail(parts), sep)

\* bytes.Split(s, sep) for a one-byte separator: always at least one part
RECURSIVE SplitFrom(_, _, _)
SplitFrom(s, sep, cur) ==
  IF s = <<>> THEN <<cur>>
  ELSE IF Head(s) = sep THEN <<cur>> \o SplitFrom(Tail(s), sep, <<>>)
  ELSE SplitFrom(Tail(s), sep, Append(cur, Head(s)))

Split(s, sep) == SplitFrom(s, sep, <<>>)

\* slices.DeleteFunc(s, func(v) bool { return v == x })
RECURSIVE DeleteFunc(_, _)
DeleteFunc(s, x) ==
  IF s = <<>> THEN <<>>
  ELSE IF Head(s) = x THEN DeleteFunc(Tail(s), x)
  ELSE <<Head(s)>> \o DeleteFunc(Tail(s), x)

\* encoding.EncodeCrockfordB32LC(sha256(b)): one digest symbol per distinct
\* byte string (SHA-256 taken to be collision free)
Sha256B32(b) == << "(" \o Concat(b) \o ")" >>

(***************************************************************************)
(* Tasks and the state.                                                    *)
(***************************************************************************)
VARIABLES
  files,     \* files[r][id]: body of blob id in repository r (present ids only)
  lockFile,  \* lockFile[<<r, id>>]: inode the sidecar lock path names now
  fds,       \* open descriptions of lock files and the flock each holds
  pc,        \* pc[t]: where task t stands
  op,        \* op[t]: the call task t is running
  want,      \* want[t]: the lock path and mode task t is acquiring
  defers,    \* defers[t]: lock paths whose release closures are pending
  cont,      \* cont[t]: where task t goes on once its releases have run
  meta,      \* meta[t]: the MediaMeta task t read from the meta repository
  backrefs,  \* backrefs[t]: the backref list task t read
  wr,        \* wr[t]: the blob task t is in the middle of writing
  names,     \* names[t]: file names task t collected for DeleteAll
  res,       \* res[t]: what the call of task t returned
  pre,       \* the stored blobs when the running call started (sequential runs)
  upload     \* the POST /media request being served: its tasks and channels

vars == <<files, lockFile, fds, pc, op, want, defers, cont, meta, backrefs,
          wr, names, res, pre, upload>>

Tasks == DOMAIN pc

RepoNames == {"data", "backref", "meta", "cache"}

NoOp == [kind |-> "none"]
NoMeta == [ok |-> FALSE]
NoWrite == [repo |-> "none"]
NoLock == [path |-> <<>>, mode |-> "none"]
NoRes == [err |-> "pending"]
NoUpload == [form |-> "none"]

EmptyFiles == [r \in RepoNames |-> <<>>]

(***************************************************************************)
(* Filesystem blob repository: blobs.                                      *)
(***************************************************************************)
\* FileSystemRepository.blobExists
blobExists(r, id) == id \in DOMAIN files[r]

Put(f, k, v) == [x \in DOMAIN f \cup {k} |-> IF x = k THEN v ELSE f[x]]
Drop(f, k) == [x \in DOMAIN f \ {k} |-> f[x]]

\* file.Truncate(size) on the file opened with O_CREATE: the old bytes cut or
\* padded with zero bytes to the new size
Truncated(fs, r, id, size) ==
  LET old == IF id \in DOMAIN fs[r] THEN fs[r][id] ELSE <<>>
  IN  [i \in 1..size |-> IF i <= Len(old) THEN old[i] ELSE ZeroByte]

\* FileSystemRepository.storeBlob up to Truncate
storeBlobOpen(fs, r, id, body) ==
  [fs EXCEPT ![r] = Put(@, id, Truncated(fs, r, id, Len(body)))]

\* FileSystemRepository.storeBlob from WriteTo on
storeBlobWrite(fs, r, id, body) == [fs EXCEPT ![r] = Put(@, id, body)]

\* a delete that leaves the file in place
deleteBlobKeep(fs, r, id) == fs

\* FileSystemRepository.deleteBlob (the caller has checked the blob is there)
deleteBlob(fs, r, id) == [fs EXCEPT ![r] = Drop(@, id)]

(***************************************************************************)
(* Filesystem blob repository: advisory locks (flock on a sidecar file).   *)
(***************************************************************************)
LockPath(r, id) == <<r, id>>

\* an inode number no open description of this path and no directory entry uses
FreshIno(path) ==
  LET used == {f.ino : f \in {g \in fds : g.path = path}}
  IN  CHOOSE i \in 1..(Cardinality(Tasks) + 1) :
        /\ i \notin used
        /\ \A j \in 1..(Cardinality(Tasks) + 1) : j \notin used => i <= j

\* the open description of task t on path
FdOf(t, path) == {f \in fds : f.task = t /\ f.path = path}

\* a kernel that grants every lock at once
GrantableAlways(f) == TRUE

\* flock(2): a shared lock is granted unless another description of the same
\* inode holds an exclusive one; an exclusive lock only when no other holds any
Grantable(f) ==
  \A g \in fds :
    (g # f /\ g.path = f.path /\ g.ino = f.ino /\ g.held)
      => (f.mode = "SH" /\ g.mode = "SH")

\* os.OpenFile(lockfile, O_CREATE|O_RDWR): opens the inode the path names, or
\* creates one
flockOpen(t) ==
  /\ pc[t] \in {"lockMeta_open", "lockData_open", "lockCache_open", "lock_open"}
  /\ LET path == want[t].path
         ino == IF path \in DOMAIN lockFile THEN lockFile[path] ELSE FreshIno(path)
     IN  /\ lockFile' = Put(lockFile, path, ino)
         /\ fds' = fds \cup {[task |-> t, path |-> path, ino |-> ino,
                              mode |-> want[t].mode, held |-> FALSE]}
  /\ pc' = [pc EXCEPT ![t] =
              CASE pc[t] = "lockMeta_open" -> "lockMeta_flock"
                [] pc[t] = "lockData_open" -> "lockData_flock"
                [] pc[t] = "lockCache_open" -> "lockCache_flock"
                [] OTHER -> "lock_flock"]
  /\ UNCHANGED <<upload, files, op, want, defers, cont, meta, backrefs, wr, names, res, pre>>

\* where a task goes once the lock it asked for is granted
AfterLock(t) ==
  CASE pc[t] = "lock_flock" -> "lock_held"
    [] pc[t] = "lockMeta_flock" /\ op[t].kind = "Store" -> "lockData_open"
    [] pc[t] = "lockMeta_flock" /\ op[t].kind = "Fetch" -> "fetch_meta"
    [] pc[t] = "lockMeta_flock" /\ op[t].kind = "Delete" -> "delete_meta"
    [] pc[t] = "lockData_flock" /\ op[t].kind = "Store" -> "store_dataExists"
    [] pc[t] = "lockData_flock" /\ op[t].kind = "Fetch" -> "fetch_data"
    [] pc[t] = "lockData_flock" /\ op[t].kind = "Delete" -> "backref_exists"
    [] pc[t] = "lockCache_flock" /\ op[t].kind = "Fetch" -> "cache_exists"
    [] pc[t] = "lockCache_flock" /\ op[t].kind = "Delete" -> "cache_walk"
    [] OTHER -> "done"

\* the lock a task asks for next, after the one just granted
NextWant(t) ==
  IF pc[t] = "lockMeta_flock" /\ op[t].kind = "Store"
  THEN [path |-> LockPath("data", op[t].media.meta.Hash), mode |-> "EX"]
  ELSE NoLock

\* syscall.Flock(fd, mode): blocks until the kernel grants the lock; Lock then
\* returns the release closure
flockGranted(t) ==
  /\ pc[t] \in {"lockMeta_flock", "lockData_flock", "lockCache_flock", "lock_flock"}
  /\ \E f \in FdOf(t, want[t].path) :
       /\ ~f.held
       /\ Grantable(f)
       /\ fds' = (fds \ {f}) \cup {[f EXCEPT !.held = TRUE]}
  /\ defers' = [defers EXCEPT ![t] = <<want[t].path>> \o @]
  /\ want' = [want EXCEPT ![t] = NextWant(t)]
  /\ pc' = [pc EXCEPT ![t] = AfterLock(t)]
  /\ UNCHANGED <<upload, files, lockFile, op, cont, meta, backrefs, wr, names, res, pre>>

\* the release closure, first statement: os.Remove(lockfile) removes whatever
\* the path names now
releaseRemove(t) ==
  /\ pc[t] = "unlock_remove"
  /\ lockFile' = Drop(lockFile, Head(defers[t]))
  /\ pc' = [pc EXCEPT ![t] = "unlock_close"]
  /\ UNCHANGED <<upload, files, fds, op, want, defers, cont, meta, backrefs, wr, names, res, pre>>

\* a release closure that leaves the description open, and with it the lock
releaseCloseLeak(t) ==
  /\ pc[t] = "unlock_close"
  /\ defers' = [defers EXCEPT ![t] = Tail(@)]
  /\ pc' = [pc EXCEPT ![t] = IF Len(defers[t]) > 1 THEN "unlock_remove" ELSE cont[t]]
  /\ UNCHANGED <<upload, files, lockFile, fds, op, want, cont, meta, backrefs, wr, names, res, pre>>

\* the release closure, second statement: file.Close() drops the description
\* and with it the kernel lock (an error, ignored, when already closed); the
\* Flock call that follows gets a closed descriptor and does nothing
releaseClose(t) ==
  /\ pc[t] = "unlock_close"
  /\ fds' = fds \ FdOf(t, Head(defers[t]))
  /\ defers' = [defers EXCEPT ![t] = Tail(@)]
  /\ pc' = [pc EXCEPT ![t] = IF Len(defers[t]) > 1 THEN "unlock_remove" ELSE cont[t]]
  /\ UNCHANGED <<upload, files, lockFile, op, want, cont, meta, backrefs, wr, names, res, pre>>

(***************************************************************************)
(* Domain: MediaMeta, Media and their blob forms.                          *)
(***************************************************************************)
LBrace == "{"
RBrace == "}"
Comma == ","
Quote == "DQUOTE"
Underscore == "_"

\* fmt %d
RECURSIVE Dec(_)
Dec(n) == IF n < 10 THEN <<ToString(n)>> ELSE Dec(n \div 10) \o <<ToString(n % 10)>>

DigitOf(c) == CHOOSE d \in 0..9 : ToString(d) = c

RECURSIVE ParseDec(_)
ParseDec(s) == IF s = <<>> THEN 0 ELSE 10 * ParseDec(SubSeq(s, 1, Len(s) - 1)) + DigitOf(s[Len(s)])

\* MediaMeta.update: Hash and Size from the data, ID from
\* Hash || Filename || MIMEType || Owner
update(m, data) ==
  LET hash == Sha256B32(data)
  IN  [Filename |-> m.Filename,
       ID       |-> Sha256B32(hash \o m.Filename \o m.MIMEType \o m.Owner),
       Hash     |-> hash,
       Size     |-> Len(data),
       Owner    |-> m.Owner,
       MIMEType |-> m.MIMEType]

\* domain.NewMedia
NewMedia(data, m) == [data |-> data, meta |-> update(m, data)]

\* encoding/json on a Go string: the bytes in quotes, every byte that is not
\* valid UTF-8 replaced by U+FFFD
jsonString(s) ==
  <<Quote>> \o [i \in 1..Len(s) |-> IF s[i] = InvalidByte THEN ReplacementRune ELSE s[i]]
            \o <<Quote>>

\* json.Marshal(MediaMeta), the fields in declaration order
jsonMarshal(m) ==
  <<LBrace>> \o jsonString(m.Filename) \o <<Comma>> \o jsonString(m.ID) \o <<Comma>>
             \o jsonString(m.Hash) \o <<Comma>> \o Dec(m.Size) \o <<Comma>>
             \o jsonString(m.Owner) \o <<Comma>> \o jsonString(m.MIMEType) \o <<RBrace>>

Unquote(s) == SubSeq(s, 2, Len(s) - 1)

Digits == {ToString(d) : d \in 0..9}

Quoted(s) == Len(s) >= 2 /\ s[1] = Quote /\ s[Len(s)] = Quote

\* whether json.Unmarshal accepts the bytes as a MediaMeta object
jsonValid(b) ==
  /\ Len(b) >= 2
  /\ b[1] = LBrace
  /\ b[Len(b)] = RBrace
  /\ LET f == Split(SubSeq(b, 2, Len(b) - 1), Comma)
     IN  /\ Len(f) = 6
         /\ \A i \in {1, 2, 3, 5, 6} : Quoted(f[i])
         /\ Len(f[4]) >= 1
         /\ \A i \in 1..Len(f[4]) : f[4][i] \in Digits

\* json.Unmarshal into MediaMeta
jsonUnmarshal(b) ==
  LET f == Split(SubSeq(b, 2, Len(b) - 1), Comma)
  IN  [Filename |-> Unquote(f[1]),
       ID       |-> Unquote(f[2]),
       Hash     |-> Unquote(f[3]),
       Size     |-> ParseDec(f[4]),
       Owner    |-> Unquote(f[5]),
       MIMEType |-> Unquote(f[6])]

\* MediaMeta.AsBlob: the body of the meta blob (its id is m.ID)
MetaAsBlob(m) == jsonMarshal(m)

\* domain.NewMediaMetaFromBlob
NewMediaMetaFromBlob(b) == jsonUnmarshal(b)

\* storeBackrefs: the body of the backref blob
BackrefBody(ids) == Join(ids, <<NL>>)

\* fetchBackrefs: the list in a backref blob body
BackrefList(b) == Split(b, NL)

\* a cache id that leaves the width out
CacheIDOfHash(hash, width) == hash \o <<Underscore>>

\* the cache id of Fetch: fmt.Sprintf("%s_%d", image.Hash(), width)
CacheID(hash, width) == hash \o <<Underscore>> \o Dec(width)

\* a pattern that matches no blob id
MatchesPatternNone(id, x) == FALSE

\* the blob ids DeleteAll(id, "_*") matches: id, then "_", then anything
MatchesPattern(id, x) ==
  /\ Len(x) > Len(id)
  /\ SubSeq(x, 1, Len(id) + 1) = id \o <<Underscore>>

(***************************************************************************)
(* Image types: file name extensions, magic bytes, interpolators.          *)
(***************************************************************************)
UpperCase == <<"A", "B", "C", "D", "E", "F", "G", "H", "I", "J", "K", "L", "M",
               "N", "O", "P", "Q", "R", "S", "T", "U", "V", "W", "X", "Y", "Z">>
LowerCase == <<"a", "b", "c", "d", "e", "f", "g", "h", "i", "j", "k", "l", "m",
               "n", "o", "p", "q", "r", "s", "t", "u", "v", "w", "x", "y", "z">>

\* two letters outside ASCII whose case pairs are ASCII letters: U+0130,
\* capital I with a dot, lower-cases to "i"; U+0131, the dotless small i,
\* upper-cases to "I"
CapitalIDot == "\\u0130"
DotlessI == "\\u0131"

\* unicode.ToLower on one character; strings.ToLower maps a byte that is not
\* valid UTF-8 to U+FFFD
Lower(c) ==
  IF \E i \in 1..Len(UpperCase) : UpperCase[i] = c
  THEN LowerCase[CHOOSE i \in 1..Len(UpperCase) : UpperCase[i] = c]
  ELSE IF c = CapitalIDot THEN "i"
  ELSE IF c = InvalidByte THEN ReplacementRune ELSE c

\* unicode.ToUpper on one character, and strings.ToUpper
Upper(c) ==
  IF \E i \in 1..Len(LowerCase) : LowerCase[i] = c
  THEN UpperCase[CHOOSE i \in 1..Len(LowerCase) : LowerCase[i] = c]
  ELSE IF c = DotlessI THEN "I"
  ELSE IF c = InvalidByte THEN ReplacementRune ELSE c

ToUpper(s) == [i \in 1..Len(s) |-> Upper(s[i])]

\* strings.ToLower
ToLower(s) == [i \in 1..Len(s) |-> Lower(s[i])]

\* filepath.Ext: the suffix from the last dot of the last path element on
RECURSIVE ExtFrom(_, _)
ExtFrom(path, i) ==
  IF i = 0 THEN <<>>
  ELSE IF path[i] = "/" THEN <<>>
  ELSE IF path[i] = "." THEN SubSeq(path, i, Len(path))
  ELSE ExtFrom(path, i - 1)

Ext(path) == ExtFrom(path, Len(path))

\* a prefix test that every body passes
HasPrefixAlways(b, prefix) == TRUE

\* bytes.HasPrefix
HasPrefix(b, prefix) == Len(b) >= Len(prefix) /\ SubSeq(b, 1, Len(prefix)) = prefix

MIMETypeJPEG == <<"image/jpeg">>
MIMETypePNG == <<"image/png">>
MIMETypeTIFF == <<"image/tiff">>

ExtJpg == <<".", "j", "p", "g">>
ExtJpeg == <<".", "j", "p", "e", "g">>
ExtPng == <<".", "p", "n", "g">>
ExtTiff == <<".", "t", "i", "f", "f">>
ExtTif == <<".", "t", "i", "f">>

\* imageExtTypes
imageExtTypes ==
  [e \in {ExtJpg, ExtJpeg, ExtPng, ExtTiff, ExtTif} |->
     IF e \in {ExtJpg, ExtJpeg} THEN MIMETypeJPEG
     ELSE IF e = ExtPng THEN MIMETypePNG
     ELSE MIMETypeTIFF]

HeaderJPEG == <<"\\xFF", "\\xD8">>
HeaderPNG == <<"\\x89", "\\x50", "\\x4E", "\\x47", "\\x0D", "\\x0A", "\\x1A", "\\x0A">>
HeaderTIFFLE == <<"\\x49", "\\x49", "\\x2A", "\\x00">>
HeaderTIFFBE == <<"\\x4D", "\\x4D", "\\x00", "\\x2A">>

\* imageExtHeaders
imageExtHeaders ==
  [m \in {MIMETypeJPEG, MIMETypePNG, MIMETypeTIFF} |->
     IF m = MIMETypeJPEG THEN {HeaderJPEG}
     ELSE IF m = MIMETypePNG THEN {HeaderPNG}
     ELSE {HeaderTIFFLE, HeaderTIFFBE}]

\* a []byte argument that may be nil: no element, or the bytes
NilBytes == {}
Bytes(b) == {b}

\* a check of the upload constraints that lets every upload pass
CheckUploadConstraintsNone(filename, size, image) ==
  [type |-> <<>>, ok |-> TRUE, err |-> "none"]

\* BlobImageService.CheckUploadConstraints: (imageType, ok, err)
CheckUploadConstraints(filename, size, image) ==
  LET filenameExt == ToLower(Ext(filename))
  IN  IF size > MaxSize
      THEN [type |-> <<>>, ok |-> FALSE, err |-> "ImageTooLarge"]
      ELSE IF filenameExt \notin DOMAIN imageExtTypes
      THEN [type |-> <<>>, ok |-> FALSE, err |-> "ImageTypeNotSupported"]
      ELSE IF image = NilBytes
      THEN [type |-> <<>>, ok |-> TRUE, err |-> "none"]
      ELSE IF \E b \in image : \E header \in imageExtHeaders[imageExtTypes[filenameExt]] :
                HasPrefix(b, header)
      THEN [type |-> imageExtTypes[filenameExt], ok |-> TRUE, err |-> "none"]
      ELSE [type |-> <<>>, ok |-> FALSE, err |-> "ImageTypeMismatch"]

\* interpolMap: the names of the interpolators
interpolMap ==
  { <<"n", "e", "a", "r", "e", "s", "t", "n", "e", "i", "g", "h", "b", "o", "r">>,
    <<"c", "a", "t", "m", "u", "l", "l", "r", "o", "m">>,
    <<"b", "i", "l", "i", "n", "e", "a", "r">>,
    <<"a", "p", "p", "r", "o", "x", "b", "i", "l", "i", "n", "e", "a", "r">> }

\* getInterpolatorByName: whether the name is known
getInterpolatorByName(name) == ToLower(name) \in interpolMap

\* decodeImage: the decoder of the type accepts the bytes (a body of the model
\* that begins with the magic bytes of its type is a whole image of that type)
decodeImage(data, ctype) ==
  IF ctype \notin DOMAIN imageExtHeaders THEN "UnsupportedMIMEType"
  ELSE IF \E header \in imageExtHeaders[ctype] : HasPrefix(data, header) THEN "none"
  ELSE "Decode"

\* resizeImage: decode, look the interpolator up, scale, encode; the derivative
\* is a function of the original bytes and the width
resizeImage(data, ctype, width, interpolator) ==
  IF decodeImage(data, ctype) # "none"
  THEN [err |-> decodeImage(data, ctype), resized |-> <<>>]
  ELSE IF ~getInterpolatorByName(interpolator)
  THEN [err |-> "UnknownInterpolator", resized |-> <<>>]
  ELSE [err |-> "none",
        resized |-> << "resize(" \o Concat(data) \o "," \o ToString(width) \o ")" >>]

(***************************************************************************)
(* The calls of the model: who stores what.                                *)
(***************************************************************************)
Alice == <<"a">>
Bob == <<"b">>

\* a JPEG image of exactly MaxSize bytes, and one a byte longer
Body1 == [i \in 1..MaxSize |-> IF i <= Len(HeaderJPEG) THEN HeaderJPEG[i] ELSE "y"]
BodyBig == Body1 \o <<"y">>

NameF == <<"f">> \o ExtJpg
NameG == <<"g", ".", "J", "P", "G">>
NameX == <<InvalidByte>> \o ExtJpg

\* the MediaMeta processFile builds for an upload
MetaOf(filename, owner) ==
  [Filename |-> filename, ID |-> <<>>, Hash |-> <<>>, Size |-> 0,
   Owner |-> owner, MIMEType |-> MIMETypeJPEG]

MediaA == NewMedia(Body1, MetaOf(NameF, Alice))
MediaB == NewMedia(Body1, MetaOf(NameF, Bob))
MediaC == NewMedia(Body1, MetaOf(NameG, Alice))
MediaX == NewMedia(Body1, MetaOf(NameX, Alice))
MediaBig == NewMedia(BodyBig, MetaOf(NameF, Alice))

\* a JPEG body under a .png name, with the type the name stands for
NameP == <<"d", "o", "c">> \o ExtPng
MediaP == NewMedia(Body1, [MetaOf(NameP, Alice) EXCEPT !.MIMEType = MIMETypePNG])
\* a media of another content: one byte, no image
MediaD == NewMedia(<<"y">>, MetaOf(NameF, Alice))
\* a name of no supported type
NameQ == <<"q", ".", "g", "i", "f">>

User(name) == [ok |-> TRUE, name |-> name]
\* a call context that carries no username
NoUser == [ok |-> FALSE, name |-> <<>>]

\* ImageConfig.Interpolator: a known name, in mixed case
Interpolator == <<"B", "i", "L", "i", "n", "e", "a", "r">>

Width1 == 1

(***************************************************************************)
(* Media service and image service, one action per step that touches the   *)
(* shared filesystem.                                                      *)
(***************************************************************************)
OK == [err |-> "none"]
Err(e) == [err |-> e]

\* return from the media-service call: the deferred unlocks run, then the
\* caller goes on at next (asking for lock w there, if any)
Unwind(t, r, next, w) ==
  /\ res' = [res EXCEPT ![t] = r]
  /\ cont' = [cont EXCEPT ![t] = next]
  /\ want' = [want EXCEPT ![t] = w]
  /\ pc' = [pc EXCEPT ![t] = IF defers[t] = <<>> THEN next ELSE "unlock_remove"]

Snapshot == IF Cardinality(Tasks) = 1 THEN files ELSE pre

\* a size check that rejects a body of exactly MaxSize bytes too
TooLargeFrom(m) == Len(m.data) >= MaxSize

\* Store: media.Size() > mediaSvc.cfg.MaxSize
TooLarge(m) == Len(m.data) > MaxSize

\* BlobMediaService.Store: the size check, then the meta lock is asked for
Store(t, m) ==
  /\ pc[t] = "idle"
  /\ op' = [op EXCEPT ![t] = [kind |-> "Store", media |-> m]]
  /\ pre' = Snapshot
  /\ IF TooLarge(m)
     THEN Unwind(t, Err("MediaTooLarge"), "done", NoLock)
     ELSE /\ want' = [want EXCEPT ![t] = [path |-> LockPath("meta", m.meta.ID), mode |-> "EX"]]
          /\ pc' = [pc EXCEPT ![t] = "lockMeta_open"]
          /\ res' = [res EXCEPT ![t] = NoRes]
          /\ cont' = [cont EXCEPT ![t] = "done"]
  /\ UNCHANGED <<upload, files, lockFile, fds, defers, meta, backrefs, wr, names>>

\* BlobImageService.Store: the upload constraints are checked on the file name,
\* the size and the bytes of the media, then the media service stores it
ImageStore(t, m) ==
  LET c == CheckUploadConstraints(m.meta.Filename, Len(m.data), Bytes(m.data))
  IN  IF c.err # "none"
      THEN /\ pc[t] = "idle"
           /\ op' = [op EXCEPT ![t] = [kind |-> "ImageStore", media |-> m]]
           /\ pre' = Snapshot
           /\ Unwind(t, Err(c.err), "done", NoLock)
           /\ UNCHANGED <<upload, files, lockFile, fds, defers, meta, backrefs, wr, names>>
      ELSE Store(t, m)

\* processFile: the file of an upload is checked by name and size, read,
\* checked again with its bytes, and handed to the image service as a media
\* of the type the second check found; a failed check is reported and the
\* store is still called
processFile(t, filename, buffer, owner) ==
  LET mimeType == CheckUploadConstraints(filename, Len(buffer), Bytes(buffer)).type
  IN  ImageStore(t, NewMedia(buffer, [MetaOf(filename, owner) EXCEPT !.MIMEType = mimeType]))

\* a Store that writes the data blob whether it exists or not
storeDataAlways(t) ==
  /\ pc[t] = "store_dataExists"
  /\ pc' = [pc EXCEPT ![t] = "store_dataStore"]
  /\ UNCHANGED <<upload, files, lockFile, fds, op, want, defers, cont, meta, backrefs, wr, names, res, pre>>

\* Store: dataRepo.Exists
storeDataExists(t) ==
  /\ pc[t] = "store_dataExists"
  /\ pc' = [pc EXCEPT ![t] = IF blobExists("data", op[t].media.meta.Hash)
                              THEN "store_metaExists" ELSE "store_dataStore"]
  /\ UNCHANGED <<upload, files, lockFile, fds, op, want, defers, cont, meta, backrefs, wr, names, res, pre>>

\* a repository Store begins: the file is created and truncated to the size
BeginWrite(t, r, id, body) ==
  /\ files' = storeBlobOpen(files, r, id, body)
  /\ wr' = [wr EXCEPT ![t] = [repo |-> r, id |-> id, body |-> body]]
  /\ pc' = [pc EXCEPT ![t] = "blob_write"]

\* Store: dataRepo.Store(dataBlob)
storeData(t) ==
  /\ pc[t] = "store_dataStore"
  /\ BeginWrite(t, "data", op[t].media.meta.Hash, op[t].media.data)
  /\ UNCHANGED <<upload, lockFile, fds, op, want, defers, cont, meta, backrefs, names, res, pre>>

\* Store: metaRepo.Exists
storeMetaExists(t) ==
  /\ pc[t] = "store_metaExists"
  /\ IF blobExists("meta", op[t].media.meta.ID)
     THEN Unwind(t, OK, "done", NoLock)
     ELSE /\ pc' = [pc EXCEPT ![t] = "store_metaStore"]
          /\ UNCHANGED <<res, cont, want>>
  /\ UNCHANGED <<upload, files, lockFile, fds, op, defers, meta, backrefs, wr, names, pre>>

\* Store: metaRepo.Store(metaBlob)
storeMeta(t) ==
  /\ pc[t] = "store_metaStore"
  /\ BeginWrite(t, "meta", op[t].media.meta.ID, MetaAsBlob(op[t].media.meta))
  /\ UNCHANGED <<upload, lockFile, fds, op, want, defers, cont, meta, backrefs, names, res, pre>>

\* the content hash whose backref list the call works on
DataID(t) == IF op[t].kind = "Store" THEN op[t].media.meta.Hash ELSE meta[t].Hash

\* the media id of the call
MediaID(t) == IF op[t].kind = "Store" THEN op[t].media.meta.ID ELSE op[t].id

\* after fetchBackrefs: addBackrefs stores the extended list; pruneMedia
\* filters the list and prunes when nothing is left
AfterBackrefs(t, list) ==
  IF op[t].kind = "Store" THEN "store_backrefStore"
  ELSE IF DeleteFunc(list, meta[t].ID) = <<>> THEN "prune_dataDelete"
  ELSE "prune_backrefStore"

\* fetchBackrefs: backrefRepo.Exists; an absent blob is the empty list
fetchBackrefsExists(t) ==
  /\ pc[t] = "backref_exists"
  /\ IF blobExists("backref", DataID(t))
     THEN /\ pc' = [pc EXCEPT ![t] = "backref_fetch"]
          /\ UNCHANGED backrefs
     ELSE /\ backrefs' = [backrefs EXCEPT ![t] = <<>>]
          /\ pc' = [pc EXCEPT ![t] = AfterBackrefs(t, <<>>)]
  /\ UNCHANGED <<upload, files, lockFile, fds, op, want, defers, cont, meta, wr, names, res, pre>>

\* fetchBackrefs: backrefRepo.Fetch and the split at newlines
fetchBackrefsFetch(t) ==
  /\ pc[t] = "backref_fetch"
  /\ IF blobExists("backref", DataID(t))
     THEN /\ backrefs' = [backrefs EXCEPT ![t] = BackrefList(files["backref"][DataID(t)])]
          /\ pc' = [pc EXCEPT ![t] = AfterBackrefs(t, BackrefList(files["backref"][DataID(t)]))]
          /\ UNCHANGED <<res, cont, want>>
     ELSE /\ Unwind(t, Err("NotExist"), "done", NoLock)
          /\ UNCHANGED backrefs
  /\ UNCHANGED <<upload, files, lockFile, fds, op, defers, meta, wr, names, pre>>

\* a store that puts the new media id in front
addBackrefsFront(list, id) == <<id>> \o list

\* addBackrefs: the list the store writes back
addBackrefs(list, id) == Append(list, id)

\* Store: storeBackrefs(append(backrefs, metaID))
storeBackrefsAdd(t) ==
  /\ pc[t] = "store_backrefStore"
  /\ BeginWrite(t, "backref", DataID(t), BackrefBody(addBackrefs(backrefs[t], MediaID(t))))
  /\ UNCHANGED <<upload, lockFile, fds, op, want, defers, cont, meta, backrefs, names, res, pre>>

\* BlobImageService.Fetch / BlobMediaService.Fetch of a service configured with
\* the interpolator: the meta lock is asked for
FetchWith(t, id, user, width, interpolator) ==
  /\ pc[t] = "idle"
  /\ op' = [op EXCEPT ![t] = [kind |-> "Fetch", id |-> id, user |-> user, width |-> width,
                               interpolator |-> interpolator]]
  /\ pre' = Snapshot
  /\ want' = [want EXCEPT ![t] = [path |-> LockPath("meta", id), mode |-> "SH"]]
  /\ pc' = [pc EXCEPT ![t] = "lockMeta_open"]
  /\ res' = [res EXCEPT ![t] = NoRes]
  /\ cont' = [cont EXCEPT ![t] = "done"]
  /\ UNCHANGED <<upload, files, lockFile, fds, defers, meta, backrefs, wr, names>>

\* Fetch of the service configured with a known interpolator
Fetch(t, id, user, width) == FetchWith(t, id, user, width, Interpolator)

\* a check that lets every caller pass
AuthorizedAny(user, m) == TRUE

\* the ownership check of Fetch and Delete
Authorized(user, m) == user.ok /\ user.name = m.Owner

\* Fetch and Delete: the meta blob is fetched and parsed, the caller authorized,
\* then the data lock is asked for (shared for Fetch, exclusive for Delete)
fetchMeta(t) ==
  /\ pc[t] \in {"fetch_meta", "delete_meta"}
  /\ IF ~blobExists("meta", op[t].id)
     THEN /\ Unwind(t, Err("NotExist"), "done", NoLock)
          /\ UNCHANGED meta
     ELSE LET m == NewMediaMetaFromBlob(files["meta"][op[t].id])
          IN  IF ~jsonValid(files["meta"][op[t].id])
              THEN /\ Unwind(t, Err("InvalidJSON"), "done", NoLock)
                   /\ UNCHANGED meta
              ELSE IF ~Authorized(op[t].user, m)
              THEN /\ Unwind(t, Err("Unauthorized"), "done", NoLock)
                   /\ UNCHANGED meta
              ELSE /\ meta' = [meta EXCEPT ![t] = m]
                   /\ want' = [want EXCEPT ![t] =
                                 [path |-> LockPath("data", m.Hash),
                                  mode |-> IF op[t].kind = "Fetch" THEN "SH" ELSE "EX"]]
                   /\ pc' = [pc EXCEPT ![t] = "lockData_open"]
                   /\ UNCHANGED <<res, cont>>
  /\ UNCHANGED <<upload, files, lockFile, fds, op, defers, backrefs, wr, names, pre>>

\* Fetch: dataRepo.Fetch, NewMedia(data, meta); the media service returns and,
\* for a width, the image service asks for the shared cache lock
fetchData(t) ==
  /\ pc[t] = "fetch_data"
  /\ IF ~blobExists("data", meta[t].Hash)
     THEN Unwind(t, Err("NotExist"), "done", NoLock)
     ELSE LET media == NewMedia(files["data"][meta[t].Hash], meta[t])
          IN  IF op[t].width = 0
              THEN Unwind(t, [err |-> "none", media |-> media], "done", NoLock)
              ELSE Unwind(t, [err |-> "pending", media |-> media], "lockCache_open",
                          [path |-> LockPath("cache", CacheID(media.meta.Hash, op[t].width)),
                           mode |-> "SH"])
  /\ UNCHANGED <<upload, files, lockFile, fds, op, defers, meta, backrefs, wr, names, pre>>

\* image Fetch: cacheRepo.Exists
cacheExists(t) ==
  /\ pc[t] = "cache_exists"
  /\ pc' = [pc EXCEPT ![t] = IF blobExists("cache", CacheID(res[t].media.meta.Hash, op[t].width))
                              THEN "cache_fetch" ELSE "cache_store"]
  /\ UNCHANGED <<upload, files, lockFile, fds, op, want, defers, cont, meta, backrefs, wr, names, res, pre>>

\* image Fetch, cache hit: cacheRepo.Fetch, NewMedia(cacheBlob, image.Meta())
cacheFetch(t) ==
  /\ pc[t] = "cache_fetch"
  /\ LET cid == CacheID(res[t].media.meta.Hash, op[t].width)
     IN  IF blobExists("cache", cid)
         THEN Unwind(t, [err |-> "none", cached |-> TRUE,
                         media |-> NewMedia(files["cache"][cid], res[t].media.meta)],
                     "done", NoLock)
         ELSE Unwind(t, Err("NotExist"), "done", NoLock)
  /\ UNCHANGED <<upload, files, lockFile, fds, op, defers, meta, backrefs, wr, names, pre>>

\* image Fetch, cache miss: resizeImage, then cacheRepo.Store(cacheBlob)
cacheStore(t) ==
  /\ pc[t] = "cache_store"
  /\ LET r == resizeImage(res[t].media.data, res[t].media.meta.MIMEType, op[t].width,
                          op[t].interpolator)
     IN  IF r.err # "none"
         THEN /\ Unwind(t, Err(r.err), "done", NoLock)
              /\ UNCHANGED <<files, wr>>
         ELSE /\ BeginWrite(t, "cache", CacheID(res[t].media.meta.Hash, op[t].width), r.resized)
              /\ UNCHANGED <<want, cont, res>>
  /\ UNCHANGED <<upload, lockFile, fds, op, defers, meta, backrefs, names, pre>>

\* BlobImageService.Delete / BlobMediaService.Delete: the meta lock is asked
\* for, shared
Delete(t, id, user) ==
  /\ pc[t] = "idle"
  /\ op' = [op EXCEPT ![t] = [kind |-> "Delete", id |-> id, user |-> user]]
  /\ pre' = Snapshot
  /\ want' = [want EXCEPT ![t] = [path |-> LockPath("meta", id), mode |-> "SH"]]
  /\ pc' = [pc EXCEPT ![t] = "lockMeta_open"]
  /\ res' = [res EXCEPT ![t] = NoRes]
  /\ cont' = [cont EXCEPT ![t] = "done"]
  /\ UNCHANGED <<upload, files, lockFile, fds, defers, meta, backrefs, wr, names>>

DeleteErr(e, dataID) == [err |-> e, pruned |-> FALSE, dataID |-> dataID]

\* pruneMedia, empty list: dataRepo.Delete
pruneDataDelete(t) ==
  /\ pc[t] = "prune_dataDelete"
  /\ IF blobExists("data", meta[t].Hash)
     THEN /\ files' = deleteBlob(files, "data", meta[t].Hash)
          /\ pc' = [pc EXCEPT ![t] = "prune_backrefDelete"]
          /\ UNCHANGED <<res, cont, want>>
     ELSE /\ Unwind(t, DeleteErr("NotExist", meta[t].Hash), "done", NoLock)
          /\ UNCHANGED files
  /\ UNCHANGED <<upload, lockFile, fds, op, defers, meta, backrefs, wr, names, pre>>

\* pruneMedia, empty list: backrefRepo.Delete; pruned
pruneBackrefDelete(t) ==
  /\ pc[t] = "prune_backrefDelete"
  /\ IF blobExists("backref", meta[t].Hash)
     THEN /\ files' = deleteBlob(files, "backref", meta[t].Hash)
          /\ res' = [res EXCEPT ![t] = [err |-> "pending", pruned |-> TRUE]]
          /\ pc' = [pc EXCEPT ![t] = "delete_metaDelete"]
          /\ UNCHANGED <<cont, want>>
     ELSE /\ Unwind(t, DeleteErr("NotExist", meta[t].Hash), "done", NoLock)
          /\ UNCHANGED files
  /\ UNCHANGED <<upload, lockFile, fds, op, defers, meta, backrefs, wr, names, pre>>

\* a prune that keeps the list as it is
pruneListKeep(list, id) == list

\* a prune that drops the last entry, whichever it is
pruneListLast(list, id) == SubSeq(list, 1, Len(list) - 1)

\* pruneMedia: the list without the deleted media id
pruneList(list, id) == DeleteFunc(list, id)

\* pruneMedia, other references left: storeBackrefs(filtered list); not pruned
pruneBackrefStore(t) ==
  /\ pc[t] = "prune_backrefStore"
  /\ BeginWrite(t, "backref", meta[t].Hash, BackrefBody(pruneList(backrefs[t], meta[t].ID)))
  /\ res' = [res EXCEPT ![t] = [err |-> "pending", pruned |-> FALSE]]
  /\ UNCHANGED <<upload, lockFile, fds, op, want, defers, cont, meta, backrefs, names, pre>>

\* Delete: metaRepo.Delete; the media service returns (pruned, dataID) and,
\* when pruned, the image service asks for the exclusive cache lock at dataID
deleteMeta(t) ==
  /\ pc[t] = "delete_metaDelete"
  /\ IF blobExists("meta", op[t].id)
     THEN /\ files' = deleteBlob(files, "meta", op[t].id)
          /\ IF res[t].pruned
             THEN Unwind(t, [err |-> "pending", pruned |-> TRUE, dataID |-> meta[t].Hash],
                         "lockCache_open",
                         [path |-> LockPath("cache", meta[t].Hash), mode |-> "EX"])
             ELSE Unwind(t, [err |-> "none", pruned |-> FALSE, dataID |-> meta[t].Hash],
                         "done", NoLock)
     ELSE /\ Unwind(t, [err |-> "NotExist", pruned |-> res[t].pruned, dataID |-> meta[t].Hash],
                    "done", NoLock)
          /\ UNCHANGED files
  /\ UNCHANGED <<upload, lockFile, fds, op, defers, meta, backrefs, wr, names, pre>>

\* image Delete: DeleteAll(dataID, "_*"), the walk that collects the matches
cacheWalk(t) ==
  /\ pc[t] = "cache_walk"
  /\ names' = [names EXCEPT ![t] = {x \in DOMAIN files["cache"] : MatchesPattern(res[t].dataID, x)}]
  /\ pc' = [pc EXCEPT ![t] = "cache_remove"]
  /\ UNCHANGED <<upload, files, lockFile, fds, op, want, defers, cont, meta, backrefs, wr, res, pre>>

\* image Delete: DeleteAll(dataID, "_*"), the removal of every match (one that
\* is gone already is skipped)
cacheRemove(t) ==
  /\ pc[t] = "cache_remove"
  /\ files' = [files EXCEPT !["cache"] = [x \in DOMAIN @ \ names[t] |-> @[x]]]
  /\ names' = [names EXCEPT ![t] = {}]
  /\ Unwind(t, [err |-> "none", pruned |-> TRUE, dataID |-> res[t].dataID], "done", NoLock)
  /\ UNCHANGED <<upload, lockFile, fds, op, defers, meta, backrefs, wr, pre>>

\* where a call goes on after a repository Store
AfterWrite(t) ==
  CASE wr[t].repo = "data" -> "store_metaExists"
    [] wr[t].repo = "meta" -> "backref_exists"
    [] wr[t].repo = "backref" /\ op[t].kind = "Delete" -> "delete_metaDelete"
    [] OTHER -> "done"

\* a repository Store ends: the body is written, synced and its size checked
blobWrite(t) ==
  /\ pc[t] = "blob_write"
  /\ files' = storeBlobWrite(files, wr[t].repo, wr[t].id, wr[t].body)
  /\ wr' = [wr EXCEPT ![t] = NoWrite]
  /\ IF AfterWrite(t) # "done"
     THEN /\ pc' = [pc EXCEPT ![t] = AfterWrite(t)]
          /\ UNCHANGED <<res, cont, want>>
     ELSE IF op[t].kind = "Fetch"
          THEN Unwind(t, [err |-> "none", cached |-> FALSE,
                          media |-> NewMedia(wr[t].body, res[t].media.meta)], "done", NoLock)
          ELSE Unwind(t, OK, "done", NoLock)
  /\ UNCHANGED <<upload, lockFile, fds, op, defers, meta, backrefs, names, pre>>

(***************************************************************************)
(* A task that uses Repository.Lock directly: Lock(id, exclusive), then    *)
(* the release closure, which it may call a second time (as the deferred   *)
(* unlock1 of TestFileSystemBlobRepository_Lock does).                     *)
(***************************************************************************)
LockIds == {<<"k">>}

\* FileSystemRepository.Lock
Lock(t, id, exclusive) ==
  /\ pc[t] = "idle"
  /\ op' = [op EXCEPT ![t] = [kind |-> "Lock", id |-> id, exclusive |-> exclusive]]
  /\ want' = [want EXCEPT ![t] = [path |-> LockPath("data", id),
                                  mode |-> IF exclusive THEN "EX" ELSE "SH"]]
  /\ pc' = [pc EXCEPT ![t] = "lock_open"]
  /\ UNCHANGED <<upload, files, lockFile, fds, defers, cont, meta, backrefs, wr, names, res, pre>>

\* the caller invokes the release closure
release(t) ==
  /\ pc[t] = "lock_held"
  /\ cont' = [cont EXCEPT ![t] = "lock_released"]
  /\ pc' = [pc EXCEPT ![t] = "unlock_remove"]
  /\ UNCHANGED <<upload, files, lockFile, fds, op, want, defers, meta, backrefs, wr, names, res, pre>>

\* the caller invokes the same release closure a second time
releaseAgain(t) ==
  /\ pc[t] = "lock_released"
  /\ defers' = [defers EXCEPT ![t] = <<LockPath("data", op[t].id)>>]
  /\ cont' = [cont EXCEPT ![t] = "done"]
  /\ pc' = [pc EXCEPT ![t] = "unlock_remove"]
  /\ UNCHANGED <<upload, files, lockFile, fds, op, want, meta, backrefs, wr, names, res, pre>>

\* the caller drops the closure after one call
releaseOnce(t) ==
  /\ pc[t] = "lock_released"
  /\ cont' = [cont EXCEPT ![t] = "done"]
  /\ pc' = [pc EXCEPT ![t] = "done"]
  /\ UNCHANGED <<upload, files, lockFile, fds, op, want, defers, meta, backrefs, wr, names, res, pre>>

\* the call has returned: the task is free for its next call
Return(t) ==
  /\ pc[t] = "done"
  /\ pc' = [pc EXCEPT ![t] = "idle"]
  /\ op' = [op EXCEPT ![t] = NoOp]
  /\ res' = [res EXCEPT ![t] = NoRes]
  /\ meta' = [meta EXCEPT ![t] = NoMeta]
  /\ backrefs' = [backrefs EXCEPT ![t] = <<>>]
  /\ UNCHANGED <<upload, files, lockFile, fds, want, defers, cont, wr, names, pre>>

(***************************************************************************)
(* Specifications.                                                         *)
(***************************************************************************)
InitService(n) ==
  /\ files = EmptyFiles
  /\ lockFile = <<>>
  /\ fds = {}
  /\ pc = [t \in 1..n |-> "idle"]
  /\ op = [t \in 1..n |-> NoOp]
  /\ want = [t \in 1..n |-> NoLock]
  /\ defers = [t \in 1..n |-> <<>>]
  /\ cont = [t \in 1..n |-> "done"]
  /\ meta = [t \in 1..n |-> NoMeta]
  /\ backrefs = [t \in 1..n |-> <<>>]
  /\ wr = [t \in 1..n |-> NoWrite]
  /\ names = [t \in 1..n |-> {}]
  /\ res = [t \in 1..n |-> NoRes]
  /\ pre = EmptyFiles

\* the services with n tasks and no upload request
InitTasks(n) ==
  /\ InitService(n)
  /\ upload = NoUpload

\* SpecLock: LockTasks tasks lock and release one blob id of one repository
InitLock == InitTasks(LockTasks)

NextLock ==
  \/ \E t \in 1..LockTasks, id \in LockIds, exclusive \in BOOLEAN : Lock(t, id, exclusive)
  \/ \E t \in 1..LockTasks : flockOpen(t)
  \/ \E t \in 1..LockTasks : flockGranted(t)
  \/ \E t \in 1..LockTasks : release(t)
  \/ \E t \in 1..LockTasks : releaseRemove(t)
  \/ \E t \in 1..LockTasks : releaseClose(t)
  \/ \E t \in 1..LockTasks : releaseAgain(t)
  \/ \E t \in 1..LockTasks : releaseOnce(t)
  \/ \E t \in 1..LockTasks : Return(t)

SpecLock == InitLock /\ [][NextLock]_vars

\* Spec: ConcTasks concurrent tasks, each runs one call on an empty store
ConcMedias == {MediaA, MediaB}

Init == InitTasks(ConcTasks)

Next ==
  \/ \E t \in 1..ConcTasks, m \in ConcMedias : Store(t, m)
  \/ \E t \in 1..ConcTasks, m \in ConcMedias : Fetch(t, m.meta.ID, User(m.meta.Owner), Width1)
  \/ \E t \in 1..ConcTasks, m \in ConcMedias : Delete(t, m.meta.ID, User(m.meta.Owner))
  \/ \E t \in 1..ConcTasks : flockOpen(t)
  \/ \E t \in 1..ConcTasks : flockGranted(t)
  \/ \E t \in 1..ConcTasks : releaseRemove(t)
  \/ \E t \in 1..ConcTasks : releaseClose(t)
  \/ \E t \in 1..ConcTasks : storeDataExists(t)
  \/ \E t \in 1..ConcTasks : storeData(t)
  \/ \E t \in 1..ConcTasks : storeMetaExists(t)
  \/ \E t \in 1..ConcTasks : storeMeta(t)
  \/ \E t \in 1..ConcTasks : fetchBackrefsExists(t)
  \/ \E t \in 1..ConcTasks : fetchBackrefsFetch(t)
  \/ \E t \in 1..ConcTasks : storeBackrefsAdd(t)
  \/ \E t \in 1..ConcTasks : blobWrite(t)
  \/ \E t \in 1..ConcTasks : fetchMeta(t)
  \/ \E t \in 1..ConcTasks : fetchData(t)
  \/ \E t \in 1..ConcTasks : cacheExists(t)
  \/ \E t \in 1..ConcTasks : cacheFetch(t)
  \/ \E t \in 1..ConcTasks : cacheStore(t)
  \/ \E t \in 1..ConcTasks : pruneDataDelete(t)
  \/ \E t \in 1..ConcTasks : pruneBackrefDelete(t)
  \/ \E t \in 1..ConcTasks : pruneBackrefStore(t)
  \/ \E t \in 1..ConcTasks : deleteMeta(t)
  \/ \E t \in 1..ConcTasks : cacheWalk(t)
  \/ \E t \in 1..ConcTasks : cacheRemove(t)

Spec == Init /\ [][Next]_vars

\* SpecSame: SameTasks tasks store the same media, again and again
InitSame == InitTasks(SameTasks)

NextSame ==
  \/ \E t \in 1..SameTasks : Store(t, MediaA)
  \/ \E t \in 1..SameTasks : flockOpen(t)
  \/ \E t \in 1..SameTasks : flockGranted(t)
  \/ \E t \in 1..SameTasks : releaseRemove(t)
  \/ \E t \in 1..SameTasks : releaseClose(t)
  \/ \E t \in 1..SameTasks : storeDataExists(t)
  \/ \E t \in 1..SameTasks : storeData(t)
  \/ \E t \in 1..SameTasks : storeMetaExists(t)
  \/ \E t \in 1..SameTasks : storeMeta(t)
  \/ \E t \in 1..SameTasks : fetchBackrefsExists(t)
  \/ \E t \in 1..SameTasks : storeBackrefsAdd(t)
  \/ \E t \in 1..SameTasks : blobWrite(t)
  \/ \E t \in 1..SameTasks : Return(t)

SpecSame == InitSame /\ [][NextSame]_vars

\* SpecShare: three tasks store, once each, three media of one content hash
ShareMedia == <<MediaA, MediaB, MediaC>>

InitShare == InitTasks(Len(ShareMedia))

NextShare ==
  \/ \E t \in 1..Len(ShareMedia) : Store(t, ShareMedia[t])
  \/ \E t \in 1..Len(ShareMedia) : flockOpen(t)
  \/ \E t \in 1..Len(ShareMedia) : flockGranted(t)
  \/ \E t \in 1..Len(ShareMedia) : releaseRemove(t)
  \/ \E t \in 1..Len(ShareMedia) : releaseClose(t)
  \/ \E t \in 1..Len(ShareMedia) : storeDataExists(t)
  \/ \E t \in 1..Len(ShareMedia) : storeData(t)
  \/ \E t \in 1..Len(ShareMedia) : storeMetaExists(t)
  \/ \E t \in 1..Len(ShareMedia) : storeMeta(t)
  \/ \E t \in 1..Len(ShareMedia) : fetchBackrefsExists(t)
  \/ \E t \in 1..Len(ShareMedia) : fetchBackrefsFetch(t)
  \/ \E t \in 1..Len(ShareMedia) : storeBackrefsAdd(t)
  \/ \E t \in 1..Len(ShareMedia) : blobWrite(t)

SpecShare == InitShare /\ [][NextShare]_vars

\* SpecSeq: one task runs one call after the other
SeqMedias == {MediaA, MediaB, MediaC, MediaX, MediaBig}
SeqUsers == {User(Alice), User(Bob), NoUser}
SeqWidths == {0, Width1, Width1 + 1}
SeqUploads == {NameF, NameP, NameQ}

InitSeq == InitTasks(1)

NextSeq ==
  \/ \E m \in SeqMedias : Store(1, m)
  \/ \E m \in {MediaA, MediaP, MediaBig} : ImageStore(1, m)
  \/ \E filename \in SeqUploads : processFile(1, filename, Body1, Alice)
  \/ \E m \in SeqMedias, u \in SeqUsers, w \in SeqWidths : Fetch(1, m.meta.ID, u, w)
  \/ \E m \in SeqMedias, u \in SeqUsers : Delete(1, m.meta.ID, u)
  \/ flockOpen(1)
  \/ flockGranted(1)
  \/ releaseRemove(1)
  \/ releaseClose(1)
  \/ storeDataExists(1)
  \/ storeData(1)
  \/ storeMetaExists(1)
  \/ storeMeta(1)
  \/ fetchBackrefsExists(1)
  \/ fetchBackrefsFetch(1)
  \/ storeBackrefsAdd(1)
  \/ blobWrite(1)
  \/ fetchMeta(1)
  \/ fetchData(1)
  \/ cacheExists(1)
  \/ cacheFetch(1)
  \/ cacheStore(1)
  \/ pruneDataDelete(1)
  \/ pruneBackrefDelete(1)
  \/ pruneBackrefStore(1)
  \/ deleteMeta(1)
  \/ cacheWalk(1)
  \/ cacheRemove(1)
  \/ Return(1)

SpecSeq == InitSeq /\ [][NextSeq]_vars

\* SpecInterp: one task runs one call after the other on a service that is
\* configured, from one start to the next, with a known interpolator or with a
\* name that is not in interpolMap
UnknownName == <<"C", "u", "b", "i", "c">>
Interpolators == {Interpolator, UnknownName}
InterpMedias == {MediaA, MediaB}

InitInterp == InitTasks(1)

NextInterp ==
  \/ \E m \in InterpMedias : Store(1, m)
  \/ \E m \in InterpMedias, w \in SeqWidths, i \in Interpolators :
       FetchWith(1, m.meta.ID, User(m.meta.Owner), w, i)
  \/ \E m \in InterpMedias : Delete(1, m.meta.ID, User(m.meta.Owner))
  \/ flockOpen(1)
  \/ flockGranted(1)
  \/ releaseRemove(1)
  \/ releaseClose(1)
  \/ storeDataExists(1)
  \/ storeData(1)
  \/ storeMetaExists(1)
  \/ storeMeta(1)
  \/ fetchBackrefsExists(1)
  \/ fetchBackrefsFetch(1)
  \/ storeBackrefsAdd(1)
  \/ blobWrite(1)
  \/ fetchMeta(1)
  \/ fetchData(1)
  \/ cacheExists(1)
  \/ cacheFetch(1)
  \/ cacheStore(1)
  \/ pruneDataDelete(1)
  \/ pruneBackrefDelete(1)
  \/ pruneBackrefStore(1)
  \/ deleteMeta(1)
  \/ cacheWalk(1)
  \/ cacheRemove(1)
  \/ Return(1)

SpecInterp == InitInterp /\ [][NextInterp]_vars

\* SpecCheck: CheckUploadConstraints is called with a file name, a declared
\* size and a body (or none), again and again
CheckNames ==
  { NameF, NameG,
    <<"a", ".", "j", "p", "e", "g">>,
    <<"d", ".", "p", "n", "g">>,
    <<"t", ".", "t", "i", "f">>,
    <<"t", ".", "T", "i", "f", "f">>,
    <<"n">>,
    <<"a", ".", "g", "i", "f">>,
    <<"x", ".", "p", "n", "g", "/", "y">>,
    <<"a", ".", "j", "p", "g", ".", "p", "n", "g">> }

CheckSizes == 0..(MaxSize + 1)

CheckImages ==
  { NilBytes, Bytes(<<>>), Bytes(HeaderJPEG), Bytes(HeaderJPEG \o <<"y">>), Bytes(HeaderPNG),
    Bytes(SubSeq(HeaderPNG, 1, 4)), Bytes(HeaderTIFFLE), Bytes(HeaderTIFFBE) }

\* a call of BlobImageService.CheckUploadConstraints
CheckUpload(t, filename, size, image) ==
  /\ pc[t] = "idle"
  /\ op' = [op EXCEPT ![t] = [kind |-> "Check", filename |-> filename, size |-> size,
                               image |-> image]]
  /\ res' = [res EXCEPT ![t] = CheckUploadConstraints(filename, size, image)]
  /\ pc' = [pc EXCEPT ![t] = "done"]
  /\ UNCHANGED <<upload, files, lockFile, fds, want, defers, cont, meta, backrefs, wr, names, pre>>

InitCheck == InitTasks(1)

NextCheck ==
  \/ \E filename \in CheckNames, size \in CheckSizes, image \in CheckImages :
       CheckUpload(1, filename, size, image)
  \/ Return(1)

SpecCheck == InitCheck /\ [][NextCheck]_vars

\* SpecDel: task 1 stores MediaA (and perhaps MediaB, of the same content);
\* then DelTasks tasks delete MediaA as its owner, concurrently
Deleters == 2..(DelTasks + 1)

InitDel == InitTasks(DelTasks + 1)

StoreFirst(m) ==
  /\ \A u \in Deleters : pc[u] = "idle"
  /\ Store(1, m)

DeleteSame(t) ==
  /\ pc[1] \in {"idle", "done"}
  /\ \/ blobExists("meta", MediaA.meta.ID)
     \/ \E u \in Deleters : pc[u] # "idle"
  /\ Delete(t, MediaA.meta.ID, User(Alice))

NextDel ==
  \/ \E m \in {MediaA, MediaB} : StoreFirst(m)
  \/ \E t \in Deleters : DeleteSame(t)
  \/ \E t \in 1..(DelTasks + 1) : flockOpen(t)
  \/ \E t \in 1..(DelTasks + 1) : flockGranted(t)
  \/ \E t \in 1..(DelTasks + 1) : releaseRemove(t)
  \/ \E t \in 1..(DelTasks + 1) : releaseClose(t)
  \/ \E t \in 1..(DelTasks + 1) : storeDataExists(t)
  \/ \E t \in 1..(DelTasks + 1) : storeData(t)
  \/ \E t \in 1..(DelTasks + 1) : storeMetaExists(t)
  \/ \E t \in 1..(DelTasks + 1) : storeMeta(t)
  \/ \E t \in 1..(DelTasks + 1) : fetchBackrefsExists(t)
  \/ \E t \in 1..(DelTasks + 1) : fetchBackrefsFetch(t)
  \/ \E t \in 1..(DelTasks + 1) : storeBackrefsAdd(t)
  \/ \E t \in 1..(DelTasks + 1) : blobWrite(t)
  \/ \E t \in 1..(DelTasks + 1) : fetchMeta(t)
  \/ \E t \in 1..(DelTasks + 1) : pruneDataDelete(t)
  \/ \E t \in 1..(DelTasks + 1) : pruneBackrefDelete(t)
  \/ \E t \in 1..(DelTasks + 1) : pruneBackrefStore(t)
  \/ \E t \in 1..(DelTasks + 1) : deleteMeta(t)
  \/ \E t \in 1..(DelTasks + 1) : cacheWalk(t)
  \/ \E t \in 1..(DelTasks + 1) : cacheRemove(t)
  \/ Return(1)

SpecDel == InitDel /\ [][NextDel]_vars

(***************************************************************************)
(* Reading the stored blobs.                                               *)
(***************************************************************************)
MetaIds(fs) == DOMAIN fs["meta"]
DataIds(fs) == DOMAIN fs["data"]
CacheIds(fs) == DOMAIN fs["cache"]
HashOf(fs, id) == NewMediaMetaFromBlob(fs["meta"][id]).Hash
Backref(fs, h) == IF h \in DOMAIN fs["backref"] THEN BackrefList(fs["backref"][h]) ELSE <<>>
Elems(s) == {s[i] : i \in 1..Len(s)}

\* no call is in progress
Quiescent == \A t \in Tasks : pc[t] \in {"idle", "done"}
\* every task has run its call and every call returned without an error
AllReturnedOK == \A t \in Tasks : pc[t] = "done" /\ res[t].err = "none"
\* no call that has returned reported an error
NoFailure == \A t \in Tasks : pc[t] = "done" => res[t].err = "none"

(***************************************************************************)
(* C1: while a task holds an exclusive lock on a blob id, no other task    *)
(* holds any lock on that id (shared locks may coexist).  A task holds the *)
(* lock from the return of Lock until it calls the release closure.        *)
(***************************************************************************)
C1_MutualExclusion ==
  \A t, u \in Tasks :
    (t # u /\ pc[t] = "lock_held" /\ pc[u] = "lock_held" /\ op[t].id = op[u].id)
      => (~op[t].exclusive /\ ~op[u].exclusive)

(***************************************************************************)
(* C2: calling the release closure a second time changes nothing: the lock *)
(* files and the held locks stay as the first call left them, also when    *)
(* another task has acquired the lock in between.                          *)
(***************************************************************************)
SecondRelease(t) ==
  /\ op[t].kind = "Lock"
  /\ pc[t] \in {"unlock_remove", "unlock_close"}
  /\ cont[t] = "done"

C2_ReleaseIdempotent ==
  [][\A t \in Tasks :
       (SecondRelease(t) /\ pc'[t] # pc[t]) => (lockFile' = lockFile /\ fds' = fds)]_vars

(***************************************************************************)
(* C3: when no call is in progress and no call failed, every meta blob M   *)
(* with stored hash H has its data blob H and is an entry of backref H.    *)
(***************************************************************************)
C3_MetaHasDataAndBackref ==
  (Quiescent /\ NoFailure) =>
    \A m \in MetaIds(files) :
      /\ HashOf(files, m) \in DataIds(files)
      /\ m \in Elems(Backref(files, HashOf(files, m)))

(***************************************************************************)
(* C4: when no call is in progress and no call failed, a data blob H       *)
(* exists iff some meta blob has hash H, and for every data blob H the     *)
(* backref blob H exists, is non-empty and lists only media ids that have  *)
(* a meta blob with hash H.                                                *)
(***************************************************************************)
C4_DataIffReferenced ==
  (Quiescent /\ NoFailure) =>
    /\ \A m \in MetaIds(files) : HashOf(files, m) \in DataIds(files)
    /\ \A h \in DataIds(files) :
         /\ \E m \in MetaIds(files) : HashOf(files, m) = h
         /\ h \in DOMAIN files["backref"]
         /\ files["backref"][h] # <<>>
         /\ \A m \in Elems(Backref(files, h)) :
              m \in MetaIds(files) /\ HashOf(files, m) = h

(***************************************************************************)
(* C5: when no call is in progress, every derivative cache blob H_W has    *)
(* its data blob H.                                                        *)
(***************************************************************************)
C5_CacheHasData ==
  Quiescent =>
    \A c \in CacheIds(files) : \E h \in DataIds(files) : MatchesPattern(h, c)

(***************************************************************************)
(* C6: however many tasks store the same media, one after another or       *)
(* concurrently, every call returns no error, and once a call has returned *)
(* there is exactly one data blob, one meta blob, and the backref list of  *)
(* the hash holds the media id exactly once.                               *)
(***************************************************************************)
C6_SameStoreOnce ==
  \A t \in Tasks :
    pc[t] = "done" =>
      /\ res[t].err = "none"
      /\ DataIds(files) = {MediaA.meta.Hash}
      /\ files["data"][MediaA.meta.Hash] = MediaA.data
      /\ MetaIds(files) = {MediaA.meta.ID}
      /\ DOMAIN files["backref"] = {MediaA.meta.Hash}
      /\ Backref(files, MediaA.meta.Hash) = <<MediaA.meta.ID>>

\* one store has returned without error while another task, holding both
\* locks, is inside its own store of the same media
C6_Witness ==
  \E t, u \in Tasks :
    /\ t # u
    /\ pc[t] = "done" /\ res[t].err = "none"
    /\ pc[u] = "store_metaExists"

(***************************************************************************)
(* C7: when several tasks store media of one content hash under different  *)
(* media ids and all stores have returned without error, the backref list  *)
(* of the hash contains every one of the media ids.                        *)
(***************************************************************************)
C7_NoLostBackref ==
  AllReturnedOK =>
    \A t \in Tasks : op[t].media.meta.ID \in Elems(Backref(files, op[t].media.meta.Hash))

(***************************************************************************)
(* C8: after Alice stores a body on the empty store (media id A) and Bob   *)
(* stores the same body (media id B), there is one data blob, the two meta *)
(* blobs A and B, and the backref list of the hash is [A, B].              *)
(***************************************************************************)
AfterAlice(fs) ==
  /\ DataIds(fs) = {MediaA.meta.Hash}
  /\ MetaIds(fs) = {MediaA.meta.ID}
  /\ DOMAIN fs["backref"] = {MediaA.meta.Hash}
  /\ Backref(fs, MediaA.meta.Hash) = <<MediaA.meta.ID>>

BobStoredAfterAlice ==
  /\ pc[1] = "done"
  /\ op[1] = [kind |-> "Store", media |-> MediaB]
  /\ AfterAlice(pre)

C8_DedupStore ==
  /\ (pc[1] = "done" /\ op[1] = [kind |-> "Store", media |-> MediaA] /\ pre = EmptyFiles)
       => (res[1].err = "none" /\ AfterAlice(files))
  /\ BobStoredAfterAlice =>
       /\ res[1].err = "none"
       /\ DataIds(files) = {MediaA.meta.Hash}
       /\ files["data"][MediaA.meta.Hash] = Body1
       /\ MetaIds(files) = {MediaA.meta.ID, MediaB.meta.ID}
       /\ MediaA.meta.ID # MediaB.meta.ID
       /\ Backref(files, MediaA.meta.Hash) = <<MediaA.meta.ID, MediaB.meta.ID>>

C8_Witness == BobStoredAfterAlice /\ res[1].err = "none"

(***************************************************************************)
(* C9: a successful Delete(mediaId) removes the meta blob and returns      *)
(* (pruned, meta.hash); pruned is true exactly when mediaId was the only   *)
(* entry left in the backref list: then the data blob and the backref blob *)
(* are gone, otherwise the data blob stays and the backref list is the old *)
(* one without mediaId, the other entries in their order.                  *)
(***************************************************************************)
DeleteReturnedOK ==
  /\ pc[1] = "done"
  /\ op[1].kind = "Delete"
  /\ res[1].err = "none"

FetchByOwnerOfStored(m) ==
  /\ pc[1] = "done"
  /\ op[1].kind = "Fetch" /\ op[1].id = m.meta.ID
  /\ op[1].user = User(m.meta.Owner) /\ op[1].width = 0
  /\ m.meta.ID \in MetaIds(pre)

C10_StoreFetchRoundTrip ==
  \A m \in SeqMedias :
    FetchByOwnerOfStored(m) => (res[1].err = "none" /\ res[1].media = m)

(***************************************************************************)
(* C11: after a successful Delete(id), Fetch(id) by the former owner fails *)
(* with a not-found error for as long as no Store recreates the media id:  *)
(* a Delete that returns without error leaves no meta blob of the id, a    *)
(* meta blob appears only in a step of a Store of that media id, and a     *)
(* Fetch of an id that had no meta blob when it was called returns the     *)
(* not-found error and no media.                                           *)
(***************************************************************************)
FetchReturned ==
  /\ pc[1] = "done"
  /\ op[1].kind = "Fetch"

C11_FetchAfterDelete ==
  [][/\ DeleteReturnedOK' => op'[1].id \notin MetaIds(files')
     /\ \A id \in MetaIds(files') \ MetaIds(files) :
          op'[1].kind = "Store" /\ op'[1].media.meta.ID = id
     /\ (FetchReturned' /\ op'[1].id \notin MetaIds(pre')) => res'[1] = Err("NotExist")
    ]_vars

\* the owner's Fetch of a media id has returned not-found while the other
\* media of the same content, stored before the delete, is still there
C11_Witness ==
  /\ FetchReturned
  /\ op[1].id = MediaA.meta.ID /\ op[1].user = User(Alice)
  /\ res[1] = Err("NotExist")
  /\ Backref(pre, MediaA.meta.Hash) = <<MediaB.meta.ID>>

(***************************************************************************)
(* C12: when several tasks concurrently delete the same media id as its    *)
(* owner, exactly one delete returns without error, every other one fails  *)
(* with the not-found error, and the store is left as one delete leaves    *)
(* it: empty, or holding only the other media of the same content.         *)
(***************************************************************************)
StoredOnly(m) ==
  [meta |-> (m.meta.ID :> MetaAsBlob(m.meta)),
   data |-> (m.meta.Hash :> m.data),
   backref |-> (m.meta.Hash :> BackrefBody(<<m.meta.ID>>)),
   cache |-> <<>>]

DeletersReturned == \A t \in Deleters : pc[t] = "done"

C12_SameDeleteOnce ==
  DeletersReturned =>
    /\ \E t \in Deleters :
         /\ res[t].err = "none"
         /\ \A u \in Deleters \ {t} : res[u].err = "NotExist"
    /\ files = IF blobExists("meta", MediaB.meta.ID) THEN StoredOnly(MediaB) ELSE EmptyFiles

\* every delete has returned, and one of them failed only after it had read
\* the meta blob and taken the data lock
C12_Witness ==
  /\ DeletersReturned
  /\ \E t \in Deleters : res[t].err = "NotExist" /\ meta[t] # NoMeta
  /\ blobExists("meta", MediaB.meta.ID)

(***************************************************************************)
(* C13: Fetch(id) and Delete(id) succeed only when the call context        *)
(* carries a username equal to the owner stored in the meta blob of id;    *)
(* with another or no username they fail with Unauthorized, return no      *)
(* media and leave the data, meta, backref and cache blobs as they were.   *)
(***************************************************************************)
OwnerOf(fs, id) == NewMediaMetaFromBlob(fs["meta"][id]).Owner

FetchOrDeleteReturned ==
  /\ pc[1] = "done"
  /\ op[1].kind \in {"Fetch", "Delete"}

IsOwner(user, fs, id) == user.ok /\ user.name = OwnerOf(fs, id)

C13_OwnerOnly ==
  FetchOrDeleteReturned =>
    /\ res[1].err = "none" =>
         (op[1].id \in MetaIds(pre) /\ IsOwner(op[1].user, pre, op[1].id))
    /\ (op[1].id \in MetaIds(pre) /\ ~IsOwner(op[1].user, pre, op[1].id)) =>
         (res[1] = Err("Unauthorized") /\ files = pre)

\* a Delete of a stored media that has a derivative, called without a
\* username, has returned
C13_Witness ==
  /\ FetchOrDeleteReturned
  /\ op[1].kind = "Delete" /\ op[1].user = NoUser
  /\ op[1].id \in MetaIds(pre)
  /\ CacheIds(pre) # {}
  /\ res[1] = Err("Unauthorized")

(***************************************************************************)
(* C14: Store accepts a media whose body has exactly MaxSize bytes and     *)
(* rejects one of MaxSize+1 bytes or more with MediaTooLarge; the rejected *)
(* Store returns at once: it takes no lock and writes no blob.             *)
(***************************************************************************)
C14_SizeLimit ==
  [][/\ (op'[1].kind = "Store" /\ Len(op'[1].media.data) > MaxSize) =>
          /\ pc[1] = "idle" /\ pc'[1] = "done"
          /\ res'[1] = Err("MediaTooLarge")
          /\ files' = files /\ lockFile' = lockFile /\ fds' = fds
     /\ (pc'[1] = "done" /\ op'[1].kind = "Store" /\ Len(op'[1].media.data) = MaxSize) =>
          /\ res'[1] = OK
          /\ op'[1].media.meta.ID \in MetaIds(files')
          /\ op'[1].media.meta.Hash \in DataIds(files')
          /\ files'["data"][op'[1].media.meta.Hash] = op'[1].media.data
    ]_vars

\* a Store of a body of exactly MaxSize bytes has returned and written the
\* data blob, and the store holds no body over the limit
C14_Witness ==
  /\ pc[1] = "done" /\ op[1].kind = "Store"
  /\ Len(op[1].media.data) = MaxSize
  /\ res[1] = OK
  /\ pre = EmptyFiles
  /\ \A h \in DataIds(files) : Len(files["data"][h]) <= MaxSize

(***************************************************************************)
(* C15: CheckUploadConstraints(filename, size, body) returns the first     *)
(* failure of: ImageTooLarge when size > MaxSize; ImageTypeNotSupported    *)
(* when the lower-cased extension of the file name is none of .jpg, .jpeg, *)
(* .png, .tif, .tiff; ImageTypeMismatch when a body is given that does not *)
(* begin with the magic bytes of the type of the extension; and succeeds   *)
(* otherwise.                                                              *)
(***************************************************************************)
BeginsWith(b, magic) ==
  /\ Len(b) >= Len(magic)
  /\ \A i \in 1..Len(magic) : b[i] = magic[i]

MagicOfExt(ext) ==
  IF ext \in {ExtJpg, ExtJpeg} THEN {HeaderJPEG}
  ELSE IF ext = ExtPng THEN {HeaderPNG}
  ELSE {HeaderTIFFLE, HeaderTIFFBE}

CheckReturned ==
  /\ pc[1] = "done"
  /\ op[1].kind = "Check"

C15_CheckOrder ==
  CheckReturned =>
    LET ext == ToLower(Ext(op[1].filename))
    IN  res[1].err =
          IF op[1].size > MaxSize THEN "ImageTooLarge"
          ELSE IF ext \notin {ExtJpg, ExtJpeg, ExtPng, ExtTif, ExtTiff} THEN "ImageTypeNotSupported"
          ELSE IF \E b \in op[1].image : \A magic \in MagicOfExt(ext) : ~BeginsWith(b, magic)
          THEN "ImageTypeMismatch"
          ELSE "none"

\* a JPEG body under an upper-case .JPG name, within the size limit, passed
C15_Witness ==
  /\ CheckReturned
  /\ op[1].filename = NameG
  /\ op[1].size = MaxSize
  /\ op[1].image = Bytes(HeaderJPEG \o <<"y">>)
  /\ res[1].err = "none" /\ res[1].type = MIMETypeJPEG

(***************************************************************************)
(* C16: an image Store, and an upload of a file, whose body fails the      *)
(* upload constraint check (a body that begins with the JPEG magic bytes   *)
(* under a .png file name) is rejected with ImageTypeMismatch and writes   *)
(* nothing: the data, meta, backref and cache repositories are after the   *)
(* call what they were before it.                                          *)
(***************************************************************************)
FailsCheck(m) ==
  \/ Len(m.data) > MaxSize
  \/ ToLower(Ext(m.meta.Filename)) \notin {ExtJpg, ExtJpeg, ExtPng, ExtTif, ExtTiff}
  \/ \A magic \in MagicOfExt(ToLower(Ext(m.meta.Filename))) : ~BeginsWith(m.data, magic)

MismatchStore(m) ==
  /\ m.meta.Filename = NameP
  /\ BeginsWith(m.data, HeaderJPEG)

C16_RejectedWritesNothing ==
  [][/\ pc[1] = "idle"
     /\ pc'[1] # "idle"
     /\ op'[1].kind \in {"Store", "ImageStore"}
     /\ FailsCheck(op'[1].media)
     => /\ pc'[1] = "done"
        /\ res'[1].err # "none"
        /\ MismatchStore(op'[1].media) => res'[1] = Err("ImageTypeMismatch")
        /\ files' = files
        /\ lockFile' = lockFile]_vars

\* the mismatching upload was rejected while blobs of earlier stores exist
C16_Witness ==
  /\ pc[1] = "done"
  /\ op[1].kind = "ImageStore"
  /\ MismatchStore(op[1].media)
  /\ op[1].media.meta.MIMEType = <<>>
  /\ res[1] = Err("ImageTypeMismatch")
  /\ files = pre
  /\ DOMAIN files["data"] # {}

(***************************************************************************)
(* C17: the image service's Delete(id) removes the derivatives in the      *)
(* cache exactly when the media service pruned the content: when it pruned *)
(* with data id H, no cache blob H_W is left, for any width W, when Delete *)
(* returns; when it did not prune (another meta still references H), every *)
(* cache blob that was there before the call is still there, unchanged.    *)
(***************************************************************************)
DerivativesOf(fs, h) == {x \in DOMAIN fs["cache"] : BeginsWith(x, h \o <<Underscore>>)}

C17_CacheFollowsPrune ==
  DeleteReturnedOK =>
    LET h == HashOf(pre, op[1].id)
    IN  /\ res[1].dataID = h
        /\ res[1].pruned = (\A x \in MetaIds(pre) \ {op[1].id} : HashOf(pre, x) # h)
        /\ IF res[1].pruned
           THEN DerivativesOf(files, h) = {}
           ELSE /\ DerivativesOf(files, h) = DerivativesOf(pre, h)
                /\ files["cache"] = pre["cache"]

\* the last reference of a content with derivatives of two widths was deleted
C17_Witness ==
  /\ DeleteReturnedOK
  /\ res[1].pruned
  /\ Cardinality(DerivativesOf(pre, HashOf(pre, op[1].id))) = 2
  /\ DerivativesOf(files, HashOf(pre, op[1].id)) = {}

\* a reference of a content with a derivative was deleted, another is left
C17_WitnessKept ==
  /\ DeleteReturnedOK
  /\ ~res[1].pruned
  /\ DerivativesOf(files, HashOf(pre, op[1].id)) # {}

(***************************************************************************)
(* C18: for a stored image and a width W > 0, after the first successful   *)
(* Fetch(id, W) the cache blob hash_W exists; a later Fetch(id, W) takes   *)
(* the cache-hit path (it neither resizes nor stores) and returns the      *)
(* bytes the first call returned.  Fetch(id, 0) returns the original media *)
(* and neither reads nor writes the cache repository.                      *)
(***************************************************************************)
FetchReturnedOK ==
  /\ FetchReturned
  /\ res[1].err = "none"

\* the cache blob id of the Fetch in progress, by the stored meta
CacheBlobOf(fs) == HashOf(fs, op[1].id) \o <<Underscore>> \o Dec(op[1].width)

\* the derivative a Fetch of the configured service makes of the stored image
DerivativeOf(fs) ==
  resizeImage(fs["data"][HashOf(fs, op[1].id)],
              NewMediaMetaFromBlob(fs["meta"][op[1].id]).MIMEType,
              op[1].width, Interpolator).resized

CacheSteps ==
  {"lockCache_open", "lockCache_flock", "cache_exists", "cache_fetch", "cache_store"}

C18_FetchCache ==
  /\ FetchReturnedOK /\ op[1].width > 0 =>
       /\ CacheBlobOf(pre) \in DOMAIN files["cache"]
       /\ files["cache"][CacheBlobOf(pre)] = DerivativeOf(pre)
       /\ res[1].media.data = DerivativeOf(pre)
       /\ CacheBlobOf(pre) \in DOMAIN pre["cache"] => files = pre
  /\ /\ op[1].kind = "Fetch" /\ op[1].width > 0
     /\ op[1].id \in MetaIds(pre)
     /\ CacheBlobOf(pre) \in DOMAIN pre["cache"]
     => pc[1] \notin {"cache_store", "blob_write"} /\ files = pre
  /\ op[1].kind = "Fetch" /\ op[1].width = 0 =>
       /\ pc[1] \notin CacheSteps \cup {"blob_write"}
       /\ want[1] # NoLock => want[1].path[1] # "cache"
       /\ files = pre
       /\ FetchReturnedOK =>
            res[1].media.data = pre["data"][HashOf(pre, op[1].id)]

\* the second Fetch of a width has returned the cached derivative
C18_Witness ==
  /\ FetchReturnedOK
  /\ op[1].width = Width1
  /\ CacheBlobOf(pre) \in DOMAIN pre["cache"]
  /\ res[1].media.data = pre["cache"][CacheBlobOf(pre)]
  /\ files = pre

\* the first Fetch of a width has returned and left the derivative behind
C18_WitnessFirst ==
  /\ FetchReturnedOK
  /\ op[1].width = Width1
  /\ CacheBlobOf(pre) \notin DOMAIN pre["cache"]
  /\ CacheBlobOf(pre) \in DOMAIN files["cache"]

(***************************************************************************)
(* C19: when the configured interpolator name is none of nearestneighbor,  *)
(* catmullrom, bilinear, approxbilinear (in any case of letters), a Fetch  *)
(* with a width > 0 fails with UnknownInterpolator before any I/O: no lock *)
(* is asked for, no blob is looked up or fetched and no image is decoded,  *)
(* the call has returned the error as soon as it was made.                 *)
(***************************************************************************)
FetchUnknownInterpolator ==
  /\ op[1].kind = "Fetch"
  /\ op[1].width > 0
  /\ ToLower(op[1].interpolator) \notin interpolMap

C19_UnknownInterpolatorFirst ==
  FetchUnknownInterpolator =>
    /\ pc[1] = "done"
    /\ res[1] = Err("UnknownInterpolator")
    /\ want[1] = NoLock
    /\ fds = {}

\* what the code does hold to: the Fetch of a stored image that is not in the
\* cache fails with UnknownInterpolator, and the stores are left as they were
C19_UnknownInterpolatorLate ==
  /\ FetchUnknownInterpolator /\ pc[1] = "done" =>
       /\ files = pre
       /\ res[1].err \in {"UnknownInterpolator", "NotExist", "none"}
       /\ res[1].err = "none" => CacheBlobOf(pre) \in DOMAIN pre["cache"]
       /\ res[1].err = "NotExist" => op[1].id \notin MetaIds(pre)

\* the Fetch has taken its locks and read the meta and the data blob, and has
\* decoded the image, before it fails
C19_WitnessLate ==
  /\ FetchUnknownInterpolator
  /\ pc[1] = "cache_store"
  /\ decodeImage(res[1].media.data, res[1].media.meta.MIMEType) = "none"

\* the Fetch of a derivative that is in the cache succeeds
C19_WitnessHit ==
  /\ FetchUnknownInterpolator
  /\ pc[1] = "done"
  /\ res[1].err = "none"

(***************************************************************************)
(* C20: every Store, Fetch and Delete asks for the meta lock of its media  *)
(* id before the data lock of its hash, and never asks for a meta lock     *)
(* while it holds a data lock; so, whatever the interleaving of concurrent *)
(* Store, Fetch and Delete calls on the same or on different ids and       *)
(* hashes, with fair lock granting no deadlock is reached and every call   *)
(* returns in the end.                                                     *)
(***************************************************************************)
\* SpecFair: FairTasks concurrent tasks, each runs one call on a store that
\* holds two media of one content; a call that has begun goes on, and a lock
\* that can be granted again and again is granted
FairMedias == {MediaA, MediaB, MediaD}

\* the repositories after a Store of m that ran alone
Stored(fs, m) ==
  LET withData == storeBlobWrite(fs, "data", m.meta.Hash, m.data)
      withMeta == storeBlobWrite(withData, "meta", m.meta.ID, MetaAsBlob(m.meta))
  IN  storeBlobWrite(withMeta, "backref", m.meta.Hash,
                     BackrefBody(addBackrefs(Backref(fs, m.meta.Hash), m.meta.ID)))

FairFiles == Stored(Stored(EmptyFiles, MediaA), MediaB)

InitFair ==
  /\ files = FairFiles
  /\ lockFile = <<>>
  /\ fds = {}
  /\ pc = [t \in 1..FairTasks |-> "idle"]
  /\ op = [t \in 1..FairTasks |-> NoOp]
  /\ want = [t \in 1..FairTasks |-> NoLock]
  /\ defers = [t \in 1..FairTasks |-> <<>>]
  /\ cont = [t \in 1..FairTasks |-> "done"]
  /\ meta = [t \in 1..FairTasks |-> NoMeta]
  /\ backrefs = [t \in 1..FairTasks |-> <<>>]
  /\ wr = [t \in 1..FairTasks |-> NoWrite]
  /\ names = [t \in 1..FairTasks |-> {}]
  /\ res = [t \in 1..FairTasks |-> NoRes]
  /\ pre = FairFiles
  /\ upload = NoUpload

\* the steps of a call of task t, once it has begun
Step(t) ==
  \/ flockOpen(t)
  \/ releaseRemove(t)
  \/ releaseClose(t)
  \/ storeDataExists(t)
  \/ storeData(t)
  \/ storeMetaExists(t)
  \/ storeMeta(t)
  \/ fetchBackrefsExists(t)
  \/ fetchBackrefsFetch(t)
  \/ storeBackrefsAdd(t)
  \/ blobWrite(t)
  \/ fetchMeta(t)
  \/ fetchData(t)
  \/ cacheExists(t)
  \/ cacheFetch(t)
  \/ cacheStore(t)
  \/ pruneDataDelete(t)
  \/ pruneBackrefDelete(t)
  \/ pruneBackrefStore(t)
  \/ deleteMeta(t)
  \/ cacheWalk(t)
  \/ cacheRemove(t)

NextFair ==
  \/ \E t \in 1..FairTasks, m \in FairMedias : Store(t, m)
  \/ \E t \in 1..FairTasks, m \in FairMedias : Fetch(t, m.meta.ID, User(m.meta.Owner), Width1)
  \/ \E t \in 1..FairTasks, m \in FairMedias : Delete(t, m.meta.ID, User(m.meta.Owner))
  \/ \E t \in 1..FairTasks : Step(t)
  \/ \E t \in 1..FairTasks : flockGranted(t)

SpecFair ==
  /\ InitFair
  /\ [][NextFair]_vars
  /\ \A t \in 1..FairTasks : WF_vars(Step(t)) /\ SF_vars(flockGranted(t))

HeldBy(t) == {f.path : f \in {g \in fds : g.task = t /\ g.held}}

Asking(t, r) ==
  /\ pc[t] \in {"lockMeta_open", "lockMeta_flock", "lockData_open", "lockData_flock",
                "lockCache_open", "lockCache_flock"}
  /\ want[t].path[1] = r

IdOf(t) == IF op[t].kind = "Store" THEN op[t].media.meta.ID ELSE op[t].id

LockOrder ==
  \A t \in Tasks :
    /\ Asking(t, "meta") => HeldBy(t) = {} /\ want[t].path = <<"meta", IdOf(t)>>
    /\ Asking(t, "data") => HeldBy(t) = {<<"meta", IdOf(t)>>}
    /\ Asking(t, "cache") => HeldBy(t) = {}
    /\ \A p \in HeldBy(t) : p[1] = "data" => <<"meta", IdOf(t)>> \in HeldBy(t)

C20_LockOrderNoDeadlock ==
  /\ []LockOrder
  /\ \A t \in 1..FairTasks : (pc[t] # "idle") ~> (pc[t] = "done")

\* a Delete waits for the data lock of the hash, which a Store of another id
\* of the same content holds
C20_Witness ==
  \E t, u \in Tasks :
    /\ op[t].kind = "Delete" /\ pc[t] = "lockData_flock"
    /\ op[u].kind = "Store" /\ want[t].path \in HeldBy(u)
    /\ IdOf(t) # IdOf(u)
    /\ \A f \in FdOf(t, want[t].path) : ~Grantable(f)

(***************************************************************************)
(* SpecVanish: one task runs one call after the other, and between two     *)
(* calls the file of a data blob may be removed from outside the service.  *)
(***************************************************************************)
VanishMedias == {MediaA, MediaB}

\* the file of data blob h is removed by a party that is not the service
removeOutOfBand(h) ==
  /\ pc[1] = "idle"
  /\ h \in DOMAIN files["data"]
  /\ files' = deleteBlob(files, "data", h)
  /\ UNCHANGED <<upload, lockFile, fds, pc, op, want, defers, cont, meta, backrefs, wr, names, res, pre>>

InitVanish == InitTasks(1)

NextVanish ==
  \/ \E m \in VanishMedias : Store(1, m)
  \/ \E m \in VanishMedias, u \in {User(Alice), User(Bob)} : Delete(1, m.meta.ID, u)
  \/ \E m \in VanishMedias : removeOutOfBand(m.meta.Hash)
  \/ flockOpen(1)
  \/ flockGranted(1)
  \/ releaseRemove(1)
  \/ releaseClose(1)
  \/ storeDataExists(1)
  \/ storeData(1)
  \/ storeMetaExists(1)
  \/ storeMeta(1)
  \/ fetchBackrefsExists(1)
  \/ fetchBackrefsFetch(1)
  \/ storeBackrefsAdd(1)
  \/ blobWrite(1)
  \/ fetchMeta(1)
  \/ pruneDataDelete(1)
  \/ pruneBackrefDelete(1)
  \/ pruneBackrefStore(1)
  \/ deleteMeta(1)
  \/ cacheWalk(1)
  \/ cacheRemove(1)
  \/ Return(1)

SpecVanish == InitVanish /\ [][NextVanish]_vars

(***************************************************************************)
(* C21: a Delete(mediaId) by the owner of a media whose data blob has      *)
(* vanished out-of-band (meta present, data blob absent, mediaId the only  *)
(* entry of the backref list) still deletes the meta blob, and reports the *)
(* failure to prune the absent data blob as an error.                      *)
(***************************************************************************)
DeleteOfVanished ==
  /\ pc[1] = "done"
  /\ op[1].kind = "Delete"
  /\ op[1].id \in MetaIds(pre)
  /\ IsOwner(op[1].user, pre, op[1].id)
  /\ HashOf(pre, op[1].id) \notin DataIds(pre)
  /\ Backref(pre, HashOf(pre, op[1].id)) = <<op[1].id>>

C21_VanishedDataDelete ==
  DeleteOfVanished =>
    /\ res[1].err # "none"
    /\ op[1].id \notin MetaIds(files)

\* what the code does: the error is reported and nothing is deleted
C21_VanishedDataKeepsMeta ==
  DeleteOfVanished =>
    /\ res[1].err = "NotExist"
    /\ files = pre

C21_WitnessVanished == DeleteOfVanished

(***************************************************************************)
(* SpecFail: one task stores one media after the other, and a repository   *)
(* call made while the locks are held may fail with an I/O error.          *)
(***************************************************************************)
FailMedias == {MediaA, MediaB}

\* a repository Store or Fetch of a Store call fails: storeBlob at OpenFile
\* (nothing is written) or at WriteTo/Sync (the file is left as Truncate made
\* it), fetchBlob at OpenFile or ReadFrom; Store returns the error
ioError(t) ==
  /\ op[t].kind = "Store"
  /\ pc[t] \in {"store_dataStore", "store_metaStore", "backref_fetch", "store_backrefStore",
                "blob_write"}
  /\ wr' = [wr EXCEPT ![t] = NoWrite]
  /\ Unwind(t, Err("IO"), "done", NoLock)
  /\ UNCHANGED <<upload, files, lockFile, fds, op, defers, meta, backrefs, names, pre>>

InitFail == InitTasks(1)

NextFail ==
  \/ \E m \in FailMedias : Store(1, m)
  \/ ioError(1)
  \/ flockOpen(1)
  \/ flockGranted(1)
  \/ releaseRemove(1)
  \/ releaseClose(1)
  \/ storeDataExists(1)
  \/ storeData(1)
  \/ storeMetaExists(1)
  \/ storeMeta(1)
  \/ fetchBackrefsExists(1)
  \/ fetchBackrefsFetch(1)
  \/ storeBackrefsAdd(1)
  \/ blobWrite(1)
  \/ Return(1)

SpecFail == InitFail /\ [][NextFail]_vars

(***************************************************************************)
(* C22: reconvergence on retry: when a Store(m) has failed with an I/O     *)
(* error after it took its locks, at any step (data write, meta write,     *)
(* backref read or write), a later Store(m) that meets no failure leaves   *)
(* the store as one failure-free Store(m) does: data blob m.hash present,  *)
(* meta blob m.id present, and m.id exactly once in the backref list of    *)
(* m.hash.                                                                 *)
(***************************************************************************)
Occurrences(list, id) == Cardinality({i \in 1..Len(list) : list[i] = id})

StoreReturnedOK ==
  /\ pc[1] = "done"
  /\ op[1].kind = "Store"
  /\ res[1].err = "none"

C22_RetryReconverges ==
  StoreReturnedOK =>
    LET m == op[1].media
    IN  /\ m.meta.Hash \in DataIds(files)
        /\ files["data"][m.meta.Hash] = m.data
        /\ m.meta.ID \in MetaIds(files)
        /\ files["meta"][m.meta.ID] = MetaAsBlob(m.meta)
        /\ Occurrences(Backref(files, m.meta.Hash), m.meta.ID) = 1

\* what the code does hold to: a Store that returns without error leaves a
\* data blob and a meta blob under the ids of the media
C22_RetryLeavesBlobs ==
  StoreReturnedOK =>
    /\ op[1].media.meta.Hash \in DataIds(files)
    /\ op[1].media.meta.ID \in MetaIds(files)

\* the retry of a Store that failed after its meta write has returned, and
\* the media id is in no backref list
C22_WitnessNoBackref ==
  /\ StoreReturnedOK
  /\ files["meta"][op[1].media.meta.ID] = MetaAsBlob(op[1].media.meta)
  /\ Occurrences(Backref(files, op[1].media.meta.Hash), op[1].media.meta.ID) = 0

\* the retry of a Store that failed in its data write has returned, and the
\* data blob is not the body of the media
C22_WitnessTornData ==
  /\ StoreReturnedOK
  /\ files["data"][op[1].media.meta.Hash] # op[1].media.data

(***************************************************************************)
(* C23: data blobs and meta blobs are immutable: across any sequence of    *)
(* Store, Fetch and Delete calls the bytes under a data blob id or a meta  *)
(* blob id do not change between the creation of the blob and its          *)
(* deletion; Store writes a data or a meta blob only when none exists      *)
(* under the id.                                                           *)
(***************************************************************************)
ContentRepos == {"data", "meta"}

\* a repository Store of the blob is between its Truncate and its WriteTo
Writing(r, id) ==
  \E t \in Tasks : pc[t] = "blob_write" /\ wr[t].repo = r /\ wr[t].id = id

BytesKept ==
  \A r \in ContentRepos : \A id \in DOMAIN files[r] :
    (~Writing(r, id) /\ id \in DOMAIN files'[r]) => files'[r][id] = files[r][id]

WritesOnlyAbsent ==
  \A t \in Tasks :
    (pc[t] # "blob_write" /\ pc'[t] = "blob_write" /\ wr'[t].repo \in ContentRepos)
      => wr'[t].id \notin DOMAIN files[wr'[t].repo]

C23_Immutable == [][BytesKept /\ WritesOnlyAbsent]_vars

C23_BytesKept == [][BytesKept]_vars

\* a Store of a media whose content is stored already has returned: the data
\* blob was there before the call and is there after it
C23_Witness ==
  /\ StoreReturnedOK
  /\ op[1].media.meta.Hash \in DataIds(pre)
  /\ op[1].media.meta.ID \notin MetaIds(pre)
  /\ op[1].media.meta.ID \in MetaIds(files)
  /\ files["data"][op[1].media.meta.Hash] = pre["data"][op[1].media.meta.Hash]

(***************************************************************************)
(* C24: the image service's Fetch(id, width), for any width and whether it *)
(* hits or misses the cache, leaves the data, meta and backref             *)
(* repositories as they are; the only blob it may create or change is the  *)
(* cache blob hash_width.                                                  *)
(***************************************************************************)
OtherCacheBlobsKept ==
  \A x \in (DOMAIN files["cache"] \cup DOMAIN files'["cache"]) \ {CacheBlobOf(files)} :
    /\ x \in DOMAIN files["cache"]
    /\ x \in DOMAIN files'["cache"]
    /\ files'["cache"][x] = files["cache"][x]

C24_FetchFrame ==
  [][op[1].kind = "Fetch" /\ op'[1].kind = "Fetch" =>
       /\ files'["data"] = files["data"]
       /\ files'["meta"] = files["meta"]
       /\ files'["backref"] = files["backref"]
       /\ files'["cache"] # files["cache"] =>
            /\ op[1].id \in MetaIds(files)
            /\ op[1].width > 0
            /\ OtherCacheBlobsKept]_vars

\* a Fetch has missed the cache and stored the derivative of the second width
\* next to the one of the first
C24_Witness ==
  /\ FetchReturnedOK
  /\ op[1].width = Width1 + 1
  /\ DOMAIN pre["cache"] # {}
  /\ DOMAIN files["cache"] # DOMAIN pre["cache"]
  /\ files["data"] = pre["data"]

(***************************************************************************)
(* SpecRepo: the filesystem blob repository "cache" (extension bin) on its *)
(* own.  files["cache"] is the directory tree of the repository: the path  *)
(* of a blob file or of a lock file names its bytes, the path of a         *)
(* directory names DirEntry.  One task calls the repository, one call      *)
(* after the other.                                                        *)
(***************************************************************************)
dirPrefixLength == 2
dirPrefixDepth == 3
idMinLength == dirPrefixDepth * dirPrefixLength

Slash == "/"
Dot == "."
Star == "*"
QuestionMark == "?"
Space == " "
Zero == "0"
ExtBin == <<"b", "i", "n">>
LockSuffix == <<".", "l", "o", "c", "k">>
DirEntry == <<"<dir>">>

\* strings.ReplaceAll(s, old, new) for one-character old and new
ReplaceAll(s, old, new) == [i \in 1..Len(s) |-> IF s[i] = old THEN new ELSE s[i]]

\* strings.ReplaceAll(id, "/", "")
WithoutSlash(id) == SelectSeq(id, LAMBDA c : c # Slash)

\* fmt.Sprintf("%*s", idMinLength, basename): padded on the left with spaces
PadLeft(b) ==
  IF Len(b) >= idMinLength THEN b ELSE [i \in 1..(idMinLength - Len(b)) |-> Space] \o b

\* getBasename: the file name of the id, without the extension
PaddedName(id) == ReplaceAll(PadLeft(WithoutSlash(id)), Space, Zero)

\* getBasename: the directory prefixes, one for every i = 0, 2, 4 with
\* i < dirPrefixLength * dirPrefixDepth and i < len(basename) - dirPrefixLength
Prefixes(b) ==
  LET n == Cardinality({k \in 0..(dirPrefixDepth - 1) :
                          k * dirPrefixLength < Len(b) - dirPrefixLength})
  IN  [k \in 1..n |-> SubSeq(b, (k - 1) * dirPrefixLength + 1, k * dirPrefixLength)]

\* FileSystemRepository.getBasename, below basedir/subdir
getBasename(id) == Join(Append(Prefixes(PaddedName(id)), PaddedName(id)), <<Slash>>)

\* FileSystemRepository.GetFilename
GetFilename(id) == getBasename(id) \o <<Dot>> \o ExtBin

\* flock: lockfile := filename + ".lock"
LockFilename(id) == GetFilename(id) \o LockSuffix

\* filepath.Dir of a path with a separator in it
Dir(path) ==
  LET last == CHOOSE i \in 1..Len(path) :
                path[i] = Slash /\ \A j \in (i + 1)..Len(path) : path[j] # Slash
  IN  SubSeq(path, 1, last - 1)

\* os.MkdirAll(dir): the directory and the directories above it
MkdirAll(fs, r, dir) ==
  LET dirs == {dir} \cup {SubSeq(dir, 1, i - 1) : i \in {j \in 1..Len(dir) : dir[j] = Slash}}
  IN  [fs EXCEPT ![r] = [x \in DOMAIN @ \cup dirs |-> IF x \in dirs THEN DirEntry ELSE @[x]]]

\* filepath.Match for patterns of literals, * and ? (no character class and
\* no escape occurs in the patterns of the model): * is any run of characters
\* other than the separator, ? one such character
RECURSIVE Match(_, _)
Match(pattern, name) ==
  IF pattern = <<>> THEN name = <<>>
  ELSE IF Head(pattern) = Star
  THEN \/ Match(Tail(pattern), name)
       \/ name # <<>> /\ Head(name) # Slash /\ Match(pattern, Tail(name))
  ELSE IF Head(pattern) = QuestionMark
  THEN name # <<>> /\ Head(name) # Slash /\ Match(Tail(pattern), Tail(name))
  ELSE name # <<>> /\ Head(name) = Head(pattern) /\ Match(Tail(pattern), Tail(name))

\* a walk that reports no file
getFilenamesNone(fs, r, id, pattern) == [err |-> "none", filenames |-> {}]

\* FileSystemRepository.getFilenames: filepath.Walk over the directory of the
\* id (an error when it is not there), every file below it whose path matches
\* basename + pattern + "." + ext
getFilenames(fs, r, id, pattern) ==
  LET root == Dir(getBasename(id))
      full == getBasename(id) \o pattern \o <<Dot>> \o ExtBin
  IN  IF root \notin DOMAIN fs[r]
      THEN [err |-> "NotExist", filenames |-> {}]
      ELSE [err |-> "none",
            filenames |-> {x \in DOMAIN fs[r] :
                             /\ fs[r][x] # DirEntry
                             /\ Len(x) > Len(root) + 1
                             /\ SubSeq(x, 1, Len(root) + 1) = root \o <<Slash>>
                             /\ Match(full, x)}]

Repo == "cache"

\* the ids and bodies of the calls: a hash-like id and two derivative ids of
\* it, and two short ids
IdH == <<"a", "b", "c", "d", "e", "f", "g", "h">>
IdH1 == IdH \o <<"_", "1">>
IdH2 == IdH \o <<"_", "2">>
IdShort == <<"a", "b">>
IdShort0 == <<"0", "a", "b">>
RepoIds == {IdH, IdH1, IdH2, IdShort, IdShort0}
RepoBodies == {<<>>, <<"x">>, <<"y", "z">>}
RepoStores ==
  ({IdH} \X RepoBodies) \cup {<<IdH1, <<"x">>>>, <<IdH2, <<"x">>>>, <<IdShort, <<"x">>>>,
                              <<IdShort0, <<"y", "z">>>>}
Patterns == {<<"_", "*">>}

RepoReturn(t, o, r) ==
  /\ pc[t] = "idle"
  /\ op' = [op EXCEPT ![t] = o]
  /\ res' = [res EXCEPT ![t] = r]
  /\ pre' = files
  /\ pc' = [pc EXCEPT ![t] = "done"]
  /\ UNCHANGED <<upload, lockFile, fds, want, defers, cont, meta, backrefs, wr, names>>

\* FileSystemRepository.Store: storeBlob
RepoStore(t, id, body) ==
  /\ files' = storeBlobWrite(storeBlobOpen(MkdirAll(files, Repo, Dir(GetFilename(id))),
                                           Repo, GetFilename(id), body),
                             Repo, GetFilename(id), body)
  /\ RepoReturn(t, [kind |-> "RepoStore", id |-> id, body |-> body], OK)

\* FileSystemRepository.Exists: blobExists
RepoExists(t, id) ==
  /\ UNCHANGED files
  /\ RepoReturn(t, [kind |-> "RepoExists", id |-> id],
                [err |-> "none", exists |-> blobExists(Repo, GetFilename(id))])

\* FileSystemRepository.Fetch: fetchBlob
RepoFetch(t, id) ==
  /\ UNCHANGED files
  /\ RepoReturn(t, [kind |-> "RepoFetch", id |-> id],
                IF blobExists(Repo, GetFilename(id))
                THEN [err |-> "none", body |-> files[Repo][GetFilename(id)]]
                ELSE Err("NotExist"))

\* FileSystemRepository.Delete: deleteBlob
RepoDelete(t, id) ==
  /\ files' = IF blobExists(Repo, GetFilename(id))
              THEN deleteBlob(files, Repo, GetFilename(id)) ELSE files
  /\ RepoReturn(t, [kind |-> "RepoDelete", id |-> id],
                IF blobExists(Repo, GetFilename(id)) THEN OK ELSE Err("NotExist"))

\* FileSystemRepository.DeleteAll: deleteBlobPattern
RepoDeleteAll(t, id, pattern) ==
  LET found == getFilenames(files, Repo, id, pattern)
  IN  /\ files' = [files EXCEPT ![Repo] = [x \in DOMAIN @ \ found.filenames |-> @[x]]]
      /\ RepoReturn(t, [kind |-> "RepoDeleteAll", id |-> id, pattern |-> pattern],
                    Err(found.err))

\* FileSystemRepository.Lock: flock makes the directory and the lock file
RepoLock(t, id) ==
  /\ LockFilename(id) \notin DOMAIN files[Repo]
  /\ files' = [MkdirAll(files, Repo, Dir(LockFilename(id)))
                 EXCEPT ![Repo] = Put(@, LockFilename(id), <<>>)]
  /\ RepoReturn(t, [kind |-> "RepoLock", id |-> id], OK)

\* the release closure of the lock: the lock file is removed
RepoRelease(t, id) ==
  /\ LockFilename(id) \in DOMAIN files[Repo]
  /\ files' = deleteBlob(files, Repo, LockFilename(id))
  /\ RepoReturn(t, [kind |-> "RepoRelease", id |-> id], OK)

InitRepo == InitTasks(1)

NextRepo ==
  \/ \E s \in RepoStores : RepoStore(1, s[1], s[2])
  \/ \E id \in RepoIds : RepoExists(1, id)
  \/ \E id \in RepoIds : RepoFetch(1, id)
  \/ \E id \in RepoIds : RepoDelete(1, id)
  \/ \E id \in {IdH, IdShort}, pattern \in Patterns : RepoDeleteAll(1, id, pattern)
  \/ \E id \in {IdH, IdH1} : RepoLock(1, id)
  \/ \E id \in {IdH, IdH1} : RepoRelease(1, id)
  \/ Return(1)

SpecRepo == InitRepo /\ [][NextRepo]_vars

(***************************************************************************)
(* C25: the filesystem blob repository behaves like a map from id to       *)
(* bytes: after Store(id, b), Exists(id) is true and Fetch(id) returns b,  *)
(* whatever body (shorter, longer, empty) was under the id before; after   *)
(* Delete(id), Exists(id) is false; Fetch and Delete of an absent id fail  *)
(* with a not-found error and change nothing; a call on one id never       *)
(* changes the blob of another id.                                         *)
(***************************************************************************)
\* what Exists(id) and Fetch(id) answer on a directory tree
ExistsIn(fs, id) == GetFilename(id) \in DOMAIN fs[Repo]
BlobIn(fs, id) == fs[Repo][GetFilename(id)]

OthersKept(ids) ==
  \A j \in ids \ {op[1].id} :
    /\ ExistsIn(files, j) = ExistsIn(pre, j)
    /\ ExistsIn(pre, j) => BlobIn(files, j) = BlobIn(pre, j)

RepoIsMap(ids) ==
  /\ pc[1] = "done" /\ op[1].kind = "RepoStore" =>
       /\ res[1].err = "none"
       /\ ExistsIn(files, op[1].id)
       /\ BlobIn(files, op[1].id) = op[1].body
       /\ OthersKept(ids)
  /\ pc[1] = "done" /\ op[1].kind = "RepoDelete" =>
       IF ExistsIn(pre, op[1].id)
       THEN res[1].err = "none" /\ ~ExistsIn(files, op[1].id) /\ OthersKept(ids)
       ELSE res[1].err = "NotExist" /\ files = pre
  /\ pc[1] = "done" /\ op[1].kind = "RepoFetch" =>
       /\ files = pre
       /\ IF ExistsIn(pre, op[1].id)
          THEN res[1].err = "none" /\ res[1].body = BlobIn(pre, op[1].id)
          ELSE res[1].err = "NotExist"
  /\ pc[1] = "done" /\ op[1].kind = "RepoExists" =>
       /\ files = pre
       /\ res[1].exists = ExistsIn(pre, op[1].id)

C25_RepoIsMap == RepoIsMap(RepoIds)

\* what the code does hold to: the repository is a map on the ids of at least
\* idMinLength characters without a separator
LongIds == {id \in RepoIds : Len(id) >= idMinLength /\ WithoutSlash(id) = id}

C25_RepoIsMapOnLongIds == op[1].kind # "none" /\ op[1].id \in LongIds => RepoIsMap(LongIds)

\* a Store under one short id has replaced the blob of another
C25_WitnessAlias ==
  /\ pc[1] = "done"
  /\ op[1] = [kind |-> "RepoStore", id |-> IdShort0, body |-> <<"y", "z">>]
  /\ ExistsIn(pre, IdShort) /\ BlobIn(pre, IdShort) = <<"x">>
  /\ BlobIn(files, IdShort) = <<"y", "z">>

\* a Store has replaced a longer body by the empty one
C25_WitnessOverwrite ==
  /\ pc[1] = "done"
  /\ op[1] = [kind |-> "RepoStore", id |-> IdH, body |-> <<>>]
  /\ ExistsIn(pre, IdH) /\ BlobIn(pre, IdH) = <<"y", "z">>
  /\ BlobIn(files, IdH) = <<>>

(***************************************************************************)
(* C26: DeleteAll(id, pattern) removes exactly the blobs of the repository *)
(* whose file name matches basename(id) + pattern + "." + ext, * being the *)
(* only wildcard: with the pattern "_*" it removes every blob id_W and     *)
(* nothing else (not the blob id, not the blobs of other ids, not lock     *)
(* files); it returns no error when nothing matches or when a matched file *)
(* has disappeared already.                                                *)
(***************************************************************************)
DeleteAllReturned ==
  /\ pc[1] = "done"
  /\ op[1].kind = "RepoDeleteAll"

\* the ids id_W of the model
DerivativeIds(id) == {j \in RepoIds : BeginsWith(j, id \o <<Underscore>>)}

RemovedExactly ==
  /\ \A j \in DerivativeIds(op[1].id) : ~ExistsIn(files, j)
  /\ \A x \in DOMAIN pre[Repo] \ {GetFilename(j) : j \in DerivativeIds(op[1].id)} :
       x \in DOMAIN files[Repo] /\ files[Repo][x] = pre[Repo][x]
  /\ DOMAIN files[Repo] \subseteq DOMAIN pre[Repo]

C26_DeleteAllExact ==
  DeleteAllReturned => res[1].err = "none" /\ RemovedExactly

\* what the code does hold to: DeleteAll removes exactly the derivatives when
\* the directory of the id is there, and fails and removes nothing when not
C26_DeleteAllInDirectory ==
  DeleteAllReturned =>
    IF Dir(getBasename(op[1].id)) \in DOMAIN pre[Repo]
    THEN res[1].err = "none" /\ RemovedExactly
    ELSE res[1].err = "NotExist" /\ files = pre

\* DeleteAll has removed two derivatives and left the blob of the id, and the
\* lock file of the id, in place
C26_WitnessRemoved ==
  /\ DeleteAllReturned
  /\ res[1].err = "none"
  /\ ExistsIn(pre, IdH1) /\ ExistsIn(pre, IdH2)
  /\ ~ExistsIn(files, IdH1) /\ ~ExistsIn(files, IdH2)
  /\ ExistsIn(files, IdH)
  /\ LockFilename(IdH) \in DOMAIN files[Repo]

\* DeleteAll on a repository that has no directory for the id has failed
C26_WitnessNoDirectory ==
  /\ DeleteAllReturned
  /\ op[1].id = IdH
  /\ DOMAIN pre[Repo] = {}
  /\ res[1].err = "NotExist"

(***************************************************************************)
(* The responses of GET and DELETE /media/{id}: the status is chosen from  *)
(* the error the image service returned.                                   *)
(***************************************************************************)
\* a mapping that answers an unauthorized caller with 403
statusOfErrorForbidden(err) ==
  IF err = "Unauthorized" THEN 403
  ELSE IF err = "NotExist" THEN 404
  ELSE 500

\* handleDelete, handleDownload: the switch over the service's error
statusOfError(err) ==
  IF err \in {"Unauthorized", "NotExist"} THEN 404 ELSE 500

\* http.StatusText
StatusText(status) ==
  IF status = 404 THEN "Not Found"
  ELSE IF status = 403 THEN "Forbidden"
  ELSE "Internal Server Error"

\* what the handler writes once the image service has returned r: on an
\* error http.Error with the status text, else the media (GET) or nothing
HandlerResponse(o, r) ==
  IF r.err # "none"
  THEN [status |-> statusOfError(r.err), body |-> StatusText(statusOfError(r.err))]
  ELSE [status |-> 200, body |-> IF o.kind = "Fetch" THEN r.media.data ELSE <<>>]

(***************************************************************************)
(* C30: on GET and DELETE /media/{id} a caller who is not the owner of an  *)
(* existing media gets the same response as a caller asking for an id that *)
(* does not exist: both are answered 404 with the same body.               *)
(***************************************************************************)
NotFoundResponse == [status |-> 404, body |-> "Not Found"]

C30_NotOwnerLooksAbsent ==
  FetchOrDeleteReturned =>
    /\ (op[1].id \in MetaIds(pre) /\ ~IsOwner(op[1].user, pre, op[1].id)) =>
         HandlerResponse(op[1], res[1]) = NotFoundResponse
    /\ op[1].id \notin MetaIds(pre) =>
         HandlerResponse(op[1], res[1]) = NotFoundResponse

\* Bob asked for a derivative of a media that Alice stored
C30_Witness ==
  /\ FetchOrDeleteReturned
  /\ op[1].kind = "Fetch" /\ op[1].width = Width1
  /\ op[1].user = User(Bob)
  /\ op[1].id \in MetaIds(pre) /\ OwnerOf(pre, op[1].id) = Alice
  /\ HandlerResponse(op[1], res[1]) = NotFoundResponse

\* Bob asked to delete a media that is not stored while another one is
C30_WitnessAbsent ==
  /\ FetchOrDeleteReturned
  /\ op[1].kind = "Delete" /\ op[1].user = User(Bob)
  /\ op[1].id \notin MetaIds(pre) /\ MetaIds(pre) # {}
  /\ HandlerResponse(op[1], res[1]) = NotFoundResponse

(***************************************************************************)
(* POST /media: handleUpload, the two tasks it starts to drain the error   *)
(* and the media channel, the manager task of processMultipartFormFiles    *)
(* and one processFile task per uploaded file.  The image service's Store  *)
(* is one step here.                                                       *)
(***************************************************************************)
MaxFiles == 2

NoResponse == [status |-> 0, ids |-> <<>>]
NoChannel == [nil |-> TRUE, cap |-> 0, buf |-> <<>>, closed |-> FALSE]

\* the files a form may carry: two images, a JPEG under a .png name and a
\* file of no supported type
FileF == [Filename |-> NameF, body |-> Body1]
FileG == [Filename |-> NameG, body |-> Body1]
FileP == [Filename |-> NameP, body |-> Body1]
FileQ == [Filename |-> NameQ, body |-> Body1]
UploadFiles == {FileF, FileG, FileP, FileQ}

\* the form of the request: one that does not parse, one whose File map is
\* nil, or the files of a parsed form under 'fields' field names
Forms ==
  {[kind |-> k, files |-> <<>>, fields |-> 0] : k \in {"parseError", "nilFiles"}}
  \cup {[kind |-> "files", files |-> fs, fields |-> n] :
          fs \in [1..0 -> UploadFiles], n \in {0}}
  \cup UNION {{[kind |-> "files", files |-> fs, fields |-> n] :
                 fs \in [1..k -> UploadFiles], n \in 1..k} : k \in 1..MaxFiles}

NewRequest(form) ==
  [form |-> form, cancelled |-> FALSE, errCh |-> NoChannel, mediaCh |-> "nil",
   handler |-> "begin", errors |-> "none", medias |-> "none", manager |-> "none",
   next |-> 1, file |-> [i \in 1..Len(form.files) |-> "none"], wg |-> 0,
   once |-> FALSE, uploadErrors |-> <<>>, mediaResp |-> <<>>,
   response |-> NoResponse, panicked |-> FALSE, crashed |-> FALSE,
   gone |-> FALSE]

ServiceVars == <<lockFile, fds, pc, op, want, defers, cont, meta, backrefs, wr,
                 names, res, pre>>

\* the process runs and serves the request
Serving == ~upload.crashed

\* processMultipartForm, parse error or nil File map: the error channel holds
\* the error and is closed, the media channel is nil
FormErrorChannel(e) == [nil |-> FALSE, cap |-> 1, buf |-> <<e>>, closed |-> TRUE]

\* processMultipartFormFiles: make(chan error, len(fileHeaders))
MakeErrCh(form) == [nil |-> FALSE, cap |-> form.fields, buf |-> <<>>, closed |-> FALSE]

\* handleUpload up to errGroup.Wait: the form is processed and the two
\* listening tasks are started
handleUploadBegin ==
  /\ Serving /\ upload.handler = "begin"
  /\ upload' =
       IF upload.form.kind = "parseError"
       THEN [upload EXCEPT !.errCh = FormErrorChannel("ParseMultipartForm"),
                           !.handler = "wait", !.errors = "range", !.medias = "range"]
       ELSE IF upload.form.kind = "nilFiles"
       THEN [upload EXCEPT !.errCh = FormErrorChannel("NoMultipartFiles"),
                           !.handler = "wait", !.errors = "range", !.medias = "range"]
       ELSE [upload EXCEPT !.errCh = MakeErrCh(upload.form), !.mediaCh = "open",
                           !.manager = "loop",
                           !.handler = "wait", !.errors = "range", !.medias = "range"]
  /\ UNCHANGED <<files, ServiceVars>>

\* the error listener, for err := range errCh: the error is kept and the
\* request's token cancelled
errorsReceive ==
  /\ Serving /\ upload.errors = "range"
  /\ upload.errCh.buf # <<>>
  /\ upload' = [upload EXCEPT !.errCh.buf = Tail(@),
                              !.uploadErrors = Append(@, Head(upload.errCh.buf)),
                              !.cancelled = TRUE]
  /\ UNCHANGED <<files, ServiceVars>>

\* the error listener ends when the channel is closed and drained
errorsDone ==
  /\ Serving /\ upload.errors = "range"
  /\ upload.errCh.buf = <<>> /\ upload.errCh.closed
  /\ upload' = [upload EXCEPT !.errors = "done"]
  /\ UNCHANGED <<files, ServiceVars>>

\* the media listener, for media := range mediaCh, ends when the channel is
\* closed; on a nil channel it waits for ever
mediasDone ==
  /\ Serving /\ upload.medias = "range"
  /\ upload.mediaCh = "closed"
  /\ upload' = [upload EXCEPT !.medias = "done"]
  /\ UNCHANGED <<files, ServiceVars>>

\* the manager task: the token is not cancelled, the next file's task starts
managerSpawn ==
  /\ Serving /\ upload.manager = "loop"
  /\ upload.next <= Len(upload.form.files)
  /\ ~upload.cancelled
  /\ upload' = [upload EXCEPT !.wg = @ + 1, !.file[upload.next] = "start",
                              !.next = @ + 1]
  /\ UNCHANGED <<files, ServiceVars>>

\* the manager task: the token is cancelled, once.Do sends ctx.Err() and the
\* task returns without waiting for the tasks it started
managerCancelled ==
  /\ Serving /\ upload.manager = "loop"
  /\ upload.next <= Len(upload.form.files)
  /\ upload.cancelled
  /\ upload.once \/ Len(upload.errCh.buf) < upload.errCh.cap
  /\ upload' = [upload EXCEPT
                  !.errCh.buf = IF upload.once THEN @ ELSE Append(@, "Canceled"),
                  !.once = TRUE, !.manager = "closeErr"]
  /\ UNCHANGED <<files, ServiceVars>>

\* the manager task: every file has its task, wg.Wait() returns
managerWait ==
  /\ Serving /\ upload.manager = "loop"
  /\ upload.next > Len(upload.form.files)
  /\ upload.wg = 0
  /\ upload' = [upload EXCEPT !.manager = "closeErr"]
  /\ UNCHANGED <<files, ServiceVars>>

\* the manager task's deferred close(errCh)
managerCloseErr ==
  /\ Serving /\ upload.manager = "closeErr"
  /\ upload' = [upload EXCEPT !.errCh.closed = TRUE, !.manager = "closeMedia"]
  /\ UNCHANGED <<files, ServiceVars>>

\* the manager task's deferred close(mediaCh)
managerCloseMedia ==
  /\ Serving /\ upload.manager = "closeMedia"
  /\ upload' = [upload EXCEPT !.mediaCh = "closed", !.manager = "done"]
  /\ UNCHANGED <<files, ServiceVars>>

\* the deferred wg.Done() of processFile
Exit(u, i) == [u EXCEPT !.file[i] = "done", !.wg = @ - 1]

\* errCh <- e in task i, which goes on at next: a send on the closed channel
\* panics, a send on the full channel waits
CanSend(u) == u.errCh.closed \/ Len(u.errCh.buf) < u.errCh.cap

SendErr(u, i, e, next) ==
  IF u.errCh.closed
  THEN [u EXCEPT !.file[i] = "recover", !.panicked = TRUE]
  ELSE IF next = "done"
  THEN Exit([u EXCEPT !.errCh.buf = Append(@, e)], i)
  ELSE [u EXCEPT !.errCh.buf = Append(@, e), !.file[i] = next]

\* processFile: the task returns at once when the token is cancelled
fileStart(i) ==
  /\ Serving /\ upload.file[i] = "start"
  /\ upload' = IF upload.cancelled THEN Exit(upload, i)
               ELSE [upload EXCEPT !.file[i] = "check"]
  /\ UNCHANGED <<files, ServiceVars>>

\* processFile: the check by name and size; its error is sent and the task
\* goes on
fileCheck(i) ==
  LET f == upload.form.files[i]
      c == CheckUploadConstraints(f.Filename, Len(f.body), NilBytes)
  IN  /\ Serving /\ upload.file[i] = "check"
      /\ c.err # "none" => CanSend(upload)
      /\ upload' = IF c.err # "none" THEN SendErr(upload, i, c.err, "recheck")
                   ELSE [upload EXCEPT !.file[i] = "recheck"]
      /\ UNCHANGED <<files, ServiceVars>>

\* processFile: the file is read and checked again with its bytes; the error
\* is sent and the task goes on
fileRecheck(i) ==
  LET f == upload.form.files[i]
      c == CheckUploadConstraints(f.Filename, Len(f.body), Bytes(f.body))
  IN  /\ Serving /\ upload.file[i] = "recheck"
      /\ c.err # "none" => CanSend(upload)
      /\ upload' = IF c.err # "none" THEN SendErr(upload, i, c.err, "store")
                   ELSE [upload EXCEPT !.file[i] = "store"]
      /\ UNCHANGED <<files, ServiceVars>>

\* the media processFile hands to the image service
UploadMedia(f, owner) ==
  LET mimeType == CheckUploadConstraints(f.Filename, Len(f.body), Bytes(f.body)).type
  IN  NewMedia(f.body, [MetaOf(f.Filename, owner) EXCEPT !.MIMEType = mimeType])

\* the media of each file a form may carry, uploaded by Alice
MediaOfFile == [f \in UploadFiles |-> UploadMedia(f, Alice)]

\* BlobImageService.Store run alone: the error it returns
StoreError(m) ==
  LET c == CheckUploadConstraints(m.meta.Filename, Len(m.data), Bytes(m.data))
  IN  IF c.err # "none" THEN c.err
      ELSE IF TooLarge(m) THEN "MediaTooLarge"
      ELSE "none"

\* BlobMediaService.Store run alone: the repositories it leaves
StoreAlone(fs, m) ==
  LET withData == IF m.meta.Hash \in DOMAIN fs["data"] THEN fs
                  ELSE storeBlobWrite(fs, "data", m.meta.Hash, m.data)
  IN  IF m.meta.ID \in DOMAIN withData["meta"] THEN withData
      ELSE Stored(withData, m)

\* processFile: imageSvc.Store; its error is sent and the task returns
fileStore(i) ==
  LET m == MediaOfFile[upload.form.files[i]]
  IN  /\ Serving /\ upload.file[i] = "store"
      /\ StoreError(m) # "none" => CanSend(upload)
      /\ IF StoreError(m) # "none"
         THEN /\ upload' = SendErr(upload, i, StoreError(m), "done")
              /\ UNCHANGED files
         ELSE /\ upload' = [upload EXCEPT !.file[i] = "send"]
              /\ files' = StoreAlone(files, m)
      /\ UNCHANGED ServiceVars

\* processFile: the image service panics under the task
filePanic(i) ==
  /\ Serving /\ upload.file[i] = "store"
  /\ upload' = [upload EXCEPT !.file[i] = "recover", !.panicked = TRUE]
  /\ UNCHANGED <<files, ServiceVars>>

\* processFile, select: the media listener takes the media
fileSend(i) ==
  LET m == MediaOfFile[upload.form.files[i]]
  IN  /\ Serving /\ upload.file[i] = "send"
      /\ upload.mediaCh = "open" /\ upload.medias = "range"
      /\ upload' = Exit([upload EXCEPT !.mediaResp = Append(@, m.meta.ID)], i)
      /\ UNCHANGED <<files, ServiceVars>>

\* processFile, select: the token is cancelled
fileSendCancelled(i) ==
  /\ Serving /\ upload.file[i] = "send"
  /\ upload.cancelled
  /\ upload' = Exit(upload, i)
  /\ UNCHANGED <<files, ServiceVars>>

\* processFile, select: the media channel is closed, the send panics
fileSendClosed(i) ==
  /\ Serving /\ upload.file[i] = "send"
  /\ upload.mediaCh = "closed"
  /\ upload' = [upload EXCEPT !.file[i] = "recover", !.panicked = TRUE]
  /\ UNCHANGED <<files, ServiceVars>>

\* processFile's deferred recover: the panic is sent as an error; when the
\* error channel is closed this send panics in the deferred function, nothing
\* recovers it and the process ends
fileRecover(i) ==
  /\ Serving /\ upload.file[i] = "recover"
  /\ CanSend(upload)
  /\ upload' = IF upload.errCh.closed
               THEN [Exit(upload, i) EXCEPT !.crashed = TRUE]
               ELSE Exit([upload EXCEPT !.errCh.buf = Append(@, "Panic")], i)
  /\ UNCHANGED <<files, ServiceVars>>

\* handleUpload after errGroup.Wait: 400 when an error was kept, else the
\* media ids (the handler sorts them; their order is left as received here)
handleUploadRespond ==
  /\ Serving /\ upload.handler = "wait"
  /\ upload.errors = "done" /\ upload.medias = "done"
  /\ upload' = [upload EXCEPT
                  !.handler = "done", !.cancelled = TRUE,
                  !.response = IF upload.uploadErrors # <<>>
                               THEN [status |-> 400, ids |-> <<>>]
                               ELSE [status |-> 200, ids |-> upload.mediaResp]]
  /\ UNCHANGED <<files, ServiceVars>>

\* RescueingMiddleware: the handler task panics before it waits; the panic
\* is recovered and answered with 500
handlerPanic ==
  /\ Serving /\ upload.handler = "begin"
  /\ upload' = [upload EXCEPT !.handler = "done", !.cancelled = TRUE,
                              !.panicked = TRUE,
                              !.response = [status |-> 500, ids |-> <<>>]]
  /\ UNCHANGED <<files, ServiceVars>>

\* the client goes away: the request's context is cancelled
clientGone ==
  /\ Serving /\ upload.handler = "wait"
  /\ ~upload.cancelled
  /\ upload' = [upload EXCEPT !.cancelled = TRUE, !.gone = TRUE]
  /\ UNCHANGED <<files, ServiceVars>>

\* SpecUpload: one POST /media request with a form of at most MaxFiles files
InitUpload ==
  /\ InitService(1)
  /\ \E form \in Forms : upload = NewRequest(form)

NextUpload ==
  \/ handleUploadBegin
  \/ errorsReceive
  \/ errorsDone
  \/ mediasDone
  \/ managerSpawn
  \/ managerCancelled
  \/ managerWait
  \/ managerCloseErr
  \/ managerCloseMedia
  \/ \E i \in 1..MaxFiles : i \in DOMAIN upload.file /\ fileStart(i)
  \/ \E i \in 1..MaxFiles : i \in DOMAIN upload.file /\ fileCheck(i)
  \/ \E i \in 1..MaxFiles : i \in DOMAIN upload.file /\ fileRecheck(i)
  \/ \E i \in 1..MaxFiles : i \in DOMAIN upload.file /\ fileStore(i)
  \/ \E i \in 1..MaxFiles : i \in DOMAIN upload.file /\ filePanic(i)
  \/ \E i \in 1..MaxFiles : i \in DOMAIN upload.file /\ fileSend(i)
  \/ \E i \in 1..MaxFiles : i \in DOMAIN upload.file /\ fileSendCancelled(i)
  \/ \E i \in 1..MaxFiles : i \in DOMAIN upload.file /\ fileSendClosed(i)
  \/ \E i \in 1..MaxFiles : i \in DOMAIN upload.file /\ fileRecover(i)
  \/ handleUploadRespond
  \/ handlerPanic
  \/ clientGone

SpecUpload == InitUpload /\ [][NextUpload]_vars

(***************************************************************************)
(* C27: every POST /media request gets a response; when the form does not  *)
(* parse or carries no files the handler ends and answers 400.             *)
(***************************************************************************)
\* SpecUploadFair: SpecUpload in which a task that can take a step takes one
SpecUploadFair == SpecUpload /\ WF_vars(NextUpload)

Responded == upload.response # NoResponse

C27_UploadResponds ==
  upload.form.kind = "parseError" => <>Responded

\* what holds: a request whose form parsed and has a File map is answered
\* unless the process ends
C27_FilesFormResponds ==
  upload.form.kind = "files" => <>(Responded \/ upload.crashed)

\* the form did not parse, its error was kept and the token cancelled, and
\* the handler still waits for the listener of the nil media channel
C27_WitnessBlocked ==
  /\ upload.form.kind = "parseError"
  /\ upload.handler = "wait" /\ upload.errors = "done" /\ upload.medias = "range"
  /\ upload.mediaCh = "nil"
  /\ upload.uploadErrors = <<"ParseMultipartForm">>
  /\ upload.cancelled /\ ~Responded

\* a parsed form without files was answered 200 with no ids
C27_WitnessEmptyForm ==
  /\ upload.form.kind = "files" /\ upload.form.files = <<>>
  /\ upload.response = [status |-> 200, ids |-> <<>>]

(***************************************************************************)
(* C28: the first error on the error channel cancels the request's token;  *)
(* once the token is cancelled no per-file task starts a Store; the        *)
(* handler answers 400 with no media ids; blobs stored before the          *)
(* cancellation stay stored.  The second part is stated for a token that   *)
(* an error cancelled while the client is still there: from then on no     *)
(* Store writes a blob.                                                    *)
(***************************************************************************)
C28_NoStoreAfterCancel ==
  [][(upload.cancelled /\ ~upload.gone) => files' = files]_vars

\* what holds: a kept error has cancelled the token, the answer to a request
\* with a kept error is 400 without ids, and no step removes or changes a
\* stored data or meta blob
C28_ErrorCancelsAndAnswers400 ==
  /\ upload.uploadErrors # <<>> => upload.cancelled
  /\ (Responded /\ upload.uploadErrors # <<>>) =>
       upload.response = [status |-> 400, ids |-> <<>>]

C28_StoredBlobsStay ==
  [][\A r \in ContentRepos : \A id \in DOMAIN files[r] :
       id \in DOMAIN files'[r] /\ files'[r][id] = files[r][id]]_vars

\* the first file failed its check and the token was cancelled, then the
\* task of the second file, already past its own look at the token, stored
\* its media; the request was answered 400
C28_WitnessStoredAfterCancel ==
  /\ upload.form.files = <<FileQ, FileF>> /\ ~upload.gone
  /\ upload.response = [status |-> 400, ids |-> <<>>]
  /\ MediaOfFile[FileF].meta.ID \in DOMAIN files["meta"]
  /\ "ImageTypeNotSupported" \in Elems(upload.uploadErrors)

(***************************************************************************)
(* C29: a panic in a task that serves a request, the handler task or a     *)
(* per-file task of an upload, is recovered: the process goes on and the   *)
(* request is answered 500.  Stated for requests whose client is still     *)
(* there.                                                                  *)
(***************************************************************************)
C29_PanicRecovered ==
  ~upload.gone =>
    /\ ~upload.crashed
    /\ (upload.panicked /\ Responded) => upload.response.status = 500

\* what holds: a panic of the handler task is answered 500
C29_HandlerPanicAnswered500 ==
  (upload.panicked /\ upload.handler = "done" /\ upload.manager = "none") =>
    upload.response = [status |-> 500, ids |-> <<>>]

\* a per-file task panicked in Store, its recover sent the panic as an error
\* and the request was answered 400
C29_WitnessPanic400 ==
  /\ upload.form.files = <<FileF>>
  /\ upload.panicked /\ ~upload.crashed
  /\ upload.uploadErrors = <<"Panic">>
  /\ upload.response = [status |-> 400, ids |-> <<>>]

\* the process ended: a per-file task panicked on the closed error channel
\* a second time, inside its deferred recover
C29_WitnessCrash ==
  /\ upload.crashed /\ ~upload.gone
  /\ upload.errCh.closed
  /\ ~Responded

(***************************************************************************)
(* Media ids: NewMedia is called on two media, again and again.            *)
(***************************************************************************)
MaxField == 2

\* the strings of at most n bytes "a"
RECURSIVE StringsOfA(_)
StringsOfA(n) == IF n = 0 THEN {<<>>} ELSE StringsOfA(n - 1) \cup {[i \in 1..n |-> "a"]}

IdDatas == {Body1, <<"y">>}
IdMetas ==
  {[Filename |-> f, ID |-> <<>>, Hash |-> <<>>, Size |-> 0, Owner |-> o, MIMEType |-> t] :
     f \in StringsOfA(MaxField), o \in {Alice, Bob} \cup StringsOfA(MaxField),
     t \in {MIMETypeJPEG} \cup StringsOfA(MaxField)}

\* two calls of domain.NewMedia
NewMediaPair(t, d1, m1, d2, m2) ==
  /\ pc[t] = "idle"
  /\ op' = [op EXCEPT ![t] = [kind |-> "NewMedia", data |-> <<d1, d2>>, meta |-> <<m1, m2>>]]
  /\ res' = [res EXCEPT ![t] = [err |-> "none", media |-> <<NewMedia(d1, m1), NewMedia(d2, m2)>>]]
  /\ pc' = [pc EXCEPT ![t] = "done"]
  /\ UNCHANGED <<upload, files, lockFile, fds, want, defers, cont, meta, backrefs, wr, names, pre>>

InitId == InitTasks(1)

NextId ==
  \/ \E d1 \in IdDatas, d2 \in IdDatas, m1 \in IdMetas, m2 \in IdMetas :
       NewMediaPair(1, d1, m1, d2, m2)
  \/ Return(1)

SpecId == InitId /\ [][NextId]_vars

(***************************************************************************)
(* C31: the media id is unique per (content, owner, filename, mimeType):   *)
(* with SHA-256 injective on its input, two media that differ in owner,    *)
(* filename or mimeType never get the same id; the same bytes of different *)
(* owners get the same hash and different ids.                             *)
(***************************************************************************)
NewMediaReturned == pc[1] = "done" /\ op[1].kind = "NewMedia"

SameTuple ==
  /\ op[1].data[1] = op[1].data[2]
  /\ op[1].meta[1].Owner = op[1].meta[2].Owner
  /\ op[1].meta[1].Filename = op[1].meta[2].Filename
  /\ op[1].meta[1].MIMEType = op[1].meta[2].MIMEType

C31_IdPerTuple ==
  NewMediaReturned =>
    (res[1].media[1].meta.ID = res[1].media[2].meta.ID <=> SameTuple)

\* what holds: media of the same bytes, file name and type that differ in
\* the owner only have the same hash and different ids
C31_OwnersGetOwnIds ==
  (/\ NewMediaReturned
   /\ op[1].data[1] = op[1].data[2]
   /\ op[1].meta[1].Filename = op[1].meta[2].Filename
   /\ op[1].meta[1].MIMEType = op[1].meta[2].MIMEType
   /\ op[1].meta[1].Owner # op[1].meta[2].Owner) =>
    /\ res[1].media[1].meta.Hash = res[1].media[2].meta.Hash
    /\ res[1].media[1].meta.ID # res[1].media[2].meta.ID

\* file "a" of type "aa" and file "aa" of type "a", same bytes and owner,
\* have one id
C31_WitnessCollision ==
  /\ NewMediaReturned
  /\ op[1].data[1] = op[1].data[2]
  /\ op[1].meta[1].Owner = Alice /\ op[1].meta[2].Owner = Alice
  /\ op[1].meta[1].Filename = <<"a">> /\ op[1].meta[1].MIMEType = <<"a", "a">>
  /\ op[1].meta[2].Filename = <<"a", "a">> /\ op[1].meta[2].MIMEType = <<"a">>
  /\ res[1].media[1].meta.ID = res[1].media[2].meta.ID

(***************************************************************************)
(* Crockford Base32: EncodeCrockfordB32LC and NormalizeCrockfordB32LC are  *)
(* called on byte sequences and strings, again and again.                  *)
(***************************************************************************)
MaxStr == 2
MaxBytes == 2

Tab == "\\t"

\* the RFC 4648 alphabet, which has I, L and O
rfc4648Alphabet ==
  <<"A", "B", "C", "D", "E", "F", "G", "H", "I", "J", "K", "L", "M", "N", "O", "P",
    "Q", "R", "S", "T", "U", "V", "W", "X", "Y", "Z", "2", "3", "4", "5", "6", "7">>

crockfordBase32Alphabet ==
  <<"0", "1", "2", "3", "4", "5", "6", "7", "8", "9", "A", "B", "C", "D", "E", "F",
    "G", "H", "J", "K", "M", "N", "P", "Q", "R", "S", "T", "V", "W", "X", "Y", "Z">>

RECURSIVE Pow2(_)
Pow2(n) == IF n = 0 THEN 1 ELSE 2 * Pow2(n - 1)

\* the inner loop of EncodeCrockfordB32LC: while bits >= 5 a symbol is written
RECURSIVE Drain(_, _, _)
Drain(accum, bits, result) ==
  IF bits >= 5
  THEN Drain(accum, bits - 5,
             Append(result, crockfordBase32Alphabet[((accum \div Pow2(bits - 5)) % 32) + 1]))
  ELSE [bits |-> bits, result |-> result]

\* the outer loop of EncodeCrockfordB32LC over the input bytes
RECURSIVE EncodeFrom(_, _, _, _)
EncodeFrom(input, accum, bits, result) ==
  IF input = <<>>
  THEN IF bits > 0
       THEN Append(result, crockfordBase32Alphabet[((accum * Pow2(5 - bits)) % 32) + 1])
       ELSE result
  ELSE LET a == accum * 256 + Head(input)
           d == Drain(a, bits + 8, result)
       IN  EncodeFrom(Tail(input), a, d.bits, d.result)

\* encoding.EncodeCrockfordB32LC
EncodeCrockfordB32LC(input) == ToLower(EncodeFrom(input, 0, 0, <<>>))

\* a normalization that removes tabs and line feeds as well as spaces
WithoutWhitespace(s) == DeleteFunc(DeleteFunc(DeleteFunc(s, " "), Tab), NL)

\* NormalizeCrockfordB32LC: strings.ReplaceAll(input, " ", "")
WithoutSpaces(s) == DeleteFunc(s, " ")

\* a normalization that leaves L alone
MapRuneNoL(c) == IF c = "O" THEN "0" ELSE IF c = "I" THEN "1" ELSE c

\* NormalizeCrockfordB32LC: the switch over the runes of the upper-cased input
MapRune(c) == IF c = "O" THEN "0" ELSE IF c \in {"I", "L"} THEN "1" ELSE c

\* encoding.NormalizeCrockfordB32LC
NormalizeCrockfordB32LC(input) ==
  LET upper == ToUpper(WithoutSpaces(input))
  IN  ToLower([i \in 1..Len(upper) |-> MapRune(upper[i])])

\* the characters of the strings to normalize, and the bytes to encode (one
\* for each first symbol, and the bytes of the repository's tests)
NormChars == {" ", Tab, NL, "o", "O", "i", "I", "l", "L", "a", "Z", "u", "0", "1", "-",
              CapitalIDot, DotlessI, InvalidByte}
NormStrings == UNION {[1..n -> NormChars] : n \in 0..MaxStr}
EncodeBytes == {8 * k : k \in 0..31} \cup {1, 58, 88, 155, 196, 245, 255}
EncodeInputs == UNION {[1..n -> EncodeBytes] : n \in 0..MaxBytes}

\* a call of NormalizeCrockfordB32LC, and a second call on its result
Normalize(t, s) ==
  /\ pc[t] = "idle"
  /\ op' = [op EXCEPT ![t] = [kind |-> "Normalize", input |-> s]]
  /\ res' = [res EXCEPT ![t] = [err |-> "none", out |-> NormalizeCrockfordB32LC(s),
                                again |-> NormalizeCrockfordB32LC(NormalizeCrockfordB32LC(s))]]
  /\ pc' = [pc EXCEPT ![t] = "done"]
  /\ UNCHANGED <<upload, files, lockFile, fds, want, defers, cont, meta, backrefs, wr, names, pre>>

\* a call of EncodeCrockfordB32LC, and NormalizeCrockfordB32LC on its result
Encode(t, b) ==
  /\ pc[t] = "idle"
  /\ op' = [op EXCEPT ![t] = [kind |-> "Encode", input |-> b]]
  /\ res' = [res EXCEPT ![t] = [err |-> "none", out |-> EncodeCrockfordB32LC(b),
                                again |-> NormalizeCrockfordB32LC(EncodeCrockfordB32LC(b))]]
  /\ pc' = [pc EXCEPT ![t] = "done"]
  /\ UNCHANGED <<upload, files, lockFile, fds, want, defers, cont, meta, backrefs, wr, names, pre>>

InitB32 == InitTasks(1)

NextB32 ==
  \/ \E s \in NormStrings : Normalize(1, s)
  \/ \E b \in EncodeInputs : Encode(1, b)
  \/ Return(1)

SpecB32 == InitB32 /\ [][NextB32]_vars

\* the normalization that strips all whitespace, upper-cases, maps O to 0 and
\* I and L to 1, and lower-cases
ReferenceNormalize(s) ==
  LET upper == ToUpper(WithoutWhitespace(s))
  IN  ToLower([i \in 1..Len(upper) |-> MapRune(upper[i])])

NormalizeReturned == pc[1] = "done" /\ op[1].kind = "Normalize"

\* C32: NormalizeCrockfordB32LC(s) is the reference normalization of s, which
\* removes all whitespace characters, for every input string s.
C32_NormalizeIsReference ==
  NormalizeReturned => res[1].out = ReferenceNormalize(op[1].input)

\* on inputs whose only whitespace is the space character the two agree
C32_SpacesOnlyIsReference ==
  (NormalizeReturned /\ \A i \in 1..Len(op[1].input) : op[1].input[i] \notin {Tab, NL})
    => res[1].out = ReferenceNormalize(op[1].input)

\* a tab is kept by the code
C32_WitnessTabKept ==
  NormalizeReturned /\ op[1].input = <<Tab, "O">> /\ res[1].out = <<Tab, "0">>

\* C33: normalization is idempotent: normalizing the result of
\* NormalizeCrockfordB32LC(s) again gives the same string, for every string s.
C33_NormalizeIdempotent == NormalizeReturned => res[1].again = res[1].out

\* on inputs without U+0130 the second normalization changes nothing
C33_IdempotentWithoutCapitalIDot ==
  (NormalizeReturned /\ \A i \in 1..Len(op[1].input) : op[1].input[i] # CapitalIDot)
    => res[1].again = res[1].out

\* U+0130 is normalized to "i", and "i" to "1"
C33_WitnessCapitalIDot ==
  /\ NormalizeReturned
  /\ op[1].input = <<CapitalIDot>>
  /\ res[1].out = <<"i">>
  /\ res[1].again = <<"1">>

EncodeReturned == pc[1] = "done" /\ op[1].kind = "Encode"

\* the bits of a number, most significant first, in a field of the given width
RECURSIVE BitsOf(_, _)
BitsOf(n, width) ==
  IF width = 0 THEN <<>> ELSE Append(BitsOf(n \div 2, width - 1), n % 2)

RECURSIVE BitsOfBytes(_)
BitsOfBytes(b) == IF b = <<>> THEN <<>> ELSE BitsOf(Head(b), 8) \o BitsOfBytes(Tail(b))

\* the value of a symbol: its position in the lower-cased alphabet, from 0
SymbolValue(c) ==
  (CHOOSE k \in 1..Len(crockfordBase32Alphabet) : Lower(crockfordBase32Alphabet[k]) = c) - 1

RECURSIVE BitsOfSymbols(_)
BitsOfSymbols(s) ==
  IF s = <<>> THEN <<>> ELSE BitsOf(SymbolValue(Head(s)), 5) \o BitsOfSymbols(Tail(s))

\* C34: normalizing an encoded value does not change it, and the encoding uses
\* only the lower-cased Crockford alphabet (no i, l, o, u), 5 bits for each
\* character, the last character padded with zero bits.
C34_EncodeIsNormal ==
  EncodeReturned =>
    LET b == op[1].input
        e == res[1].out
        bits == BitsOfSymbols(e)
    IN  /\ res[1].again = e
        /\ \A i \in 1..Len(e) :
             /\ e[i] \notin {"i", "l", "o", "u"}
             /\ \E k \in 1..Len(crockfordBase32Alphabet) : Lower(crockfordBase32Alphabet[k]) = e[i]
        /\ Len(e) = (8 * Len(b) + 4) \div 5
        /\ SubSeq(bits, 1, 8 * Len(b)) = BitsOfBytes(b)
        /\ \A i \in (8 * Len(b) + 1)..Len(bits) : bits[i] = 0

\* the bytes F5 3A are encoded as "ymx0", the last symbol padded with four zero bits
C34_WitnessPadded ==
  EncodeReturned /\ op[1].input = <<245, 58>> /\ res[1].out = <<"y", "m", "x", "0">>

(***************************************************************************)
(* Time-ordered ids: uuid.New, UUID.String and uuid.Parse.  A byte is a    *)
(* number in 0..255, a UUID a sequence of UUIDSize bytes.  A number wider  *)
(* than 16 bits (the int64 clock, a uint32) is the sequence of its 16-bit  *)
(* limbs, the most significant first.                                      *)
(***************************************************************************)
UUIDSize == 16
UUIDv7 == 7

HexDigits == <<"0", "1", "2", "3", "4", "5", "6", "7", "8", "9", "a", "b", "c", "d", "e", "f">>
HexDigitsUpper == <<"0", "1", "2", "3", "4", "5", "6", "7", "8", "9", "A", "B", "C", "D", "E", "F">>

\* the hexadecimal digits of one limb, without and with its leading zeros
RECURSIVE HexLimb(_)
HexLimb(n) ==
  IF n < 16 THEN <<HexDigits[n + 1]>> ELSE Append(HexLimb(n \div 16), HexDigits[(n % 16) + 1])

HexLimbFull(n) == [i \in 1..(4 - Len(HexLimb(n))) |-> "0"] \o HexLimb(n)

RECURSIVE Concat4(_)
Concat4(n) == IF n = <<>> THEN <<>> ELSE HexLimbFull(Head(n)) \o Concat4(Tail(n))

\* the verb %x on an unsigned number: its hexadecimal digits, no padding
RECURSIVE Hex(_)
Hex(n) ==
  IF Len(n) = 1 THEN HexLimb(n[1])
  ELSE IF n[1] = 0 THEN Hex(Tail(n))
  ELSE HexLimb(n[1]) \o Concat4(Tail(n))

FormatHexUnpadded(n, width) == Hex(n)

\* the verb %0<width>x on an unsigned number: zeros on the left up to the width
FormatHex(n, width) ==
  LET h == Hex(n)
  IN  IF Len(h) >= width THEN h ELSE [i \in 1..(width - Len(h)) |-> "0"] \o h

\* the verb %0<width>x on a byte slice: two digits for each byte, then padded
RECURSIVE HexOfBytes(_)
HexOfBytes(b) ==
  IF b = <<>> THEN <<>>
  ELSE <<HexDigits[(Head(b) \div 16) + 1], HexDigits[(Head(b) % 16) + 1]>> \o HexOfBytes(Tail(b))

FormatHexBytes(b, width) ==
  LET h == HexOfBytes(b)
  IN  IF Len(h) >= width THEN h ELSE [i \in 1..(width - Len(h)) |-> "0"] \o h

\* binary.BigEndian.Uint16 and Uint32
BigEndian(b) == [i \in 1..(Len(b) \div 2) |-> 256 * b[2 * i - 1] + b[2 * i]]

\* UUID.String; bytes[i:j] of the code is SubSeq(bytes, i + 1, j)
String(bytes) ==
  FormatHex(BigEndian(SubSeq(bytes, 1, 4)), 8) \o <<"-">>
    \o FormatHex(BigEndian(SubSeq(bytes, 5, 6)), 4) \o <<"-">>
    \o FormatHex(BigEndian(SubSeq(bytes, 7, 8)), 4) \o <<"-">>
    \o FormatHex(BigEndian(SubSeq(bytes, 9, 10)), 4) \o <<"-">>
    \o FormatHexBytes(SubSeq(bytes, 11, 16), 12)

\* hex.DecodeString: the value of a digit, of either case; 16 for any other character
HexValue(c) ==
  IF \E k \in 1..16 : HexDigits[k] = c THEN (CHOOSE k \in 1..16 : HexDigits[k] = c) - 1
  ELSE IF \E k \in 1..16 : HexDigitsUpper[k] = c
       THEN (CHOOSE k \in 1..16 : HexDigitsUpper[k] = c) - 1
       ELSE 16

\* uuid.Parse
Parse(uuidStr) ==
  LET s == DeleteFunc(uuidStr, "-")
  IN  IF Len(s) # UUIDSize * 2 THEN [err |-> "ErrInvalidFormat", bytes |-> [i \in 1..UUIDSize |-> 0]]
      ELSE IF \E i \in 1..Len(s) : HexValue(s[i]) = 16
           THEN [err |-> "failed to parse UUID", bytes |-> [i \in 1..UUIDSize |-> 0]]
           ELSE [err |-> "none",
                 bytes |-> [i \in 1..UUIDSize |-> 16 * HexValue(s[2 * i - 1]) + HexValue(s[2 * i])]]

\* byte(now >> shift) of the int64 now, for a shift that is a multiple of 8
ByteOf(now, shift) == (now[4 - (shift \div 16)] \div Pow2(shift % 16)) % 256

\* generateUUIDv7: the timestamp, the ten random bytes, version and variant
generateUUIDv7(now, random) ==
  LET filled == [i \in 1..UUIDSize |->
                   IF i <= 6 THEN ByteOf(now, 8 * (6 - i)) ELSE random[i - 6]]
  IN  [filled EXCEPT ![7] = (filled[7] % 16) + 112,
                     ![9] = (filled[9] % 64) + 128]

\* the clock readings (epoch milliseconds, below 2^48, in limbs) and the random bytes
Clocks == {<<0, 0, 0, 0>>, <<0, 0, 0, 1>>, <<0, 0, 0, 4660>>, <<0, 402, 52326, 4096>>,
           <<0, 65535, 65535, 65535>>}
RandomBytes == {0, 15, 171, 255}
Randoms == {[i \in 1..10 |-> IF i = 1 THEN a ELSE IF i = 3 THEN b ELSE IF i = 10 THEN c ELSE d] :
              a \in RandomBytes, b \in RandomBytes, c \in RandomBytes, d \in RandomBytes}
Versions == {UUIDv7, 4}

\* uuid.New, then String on the id and Parse on the string
New(t, version, now, random) ==
  /\ pc[t] = "idle"
  /\ op' = [op EXCEPT ![t] = [kind |-> "New", version |-> version, now |-> now, random |-> random]]
  /\ res' = [res EXCEPT ![t] =
       IF version = UUIDv7
       THEN LET u == generateUUIDv7(now, random)
            IN  [err |-> "none", uuid |-> u, str |-> String(u), parsed |-> Parse(String(u))]
       ELSE [err |-> "ErrUnknownVersion", uuid |-> [i \in 1..UUIDSize |-> 0], str |-> <<>>,
             parsed |-> Parse(<<>>)]]
  /\ pc' = [pc EXCEPT ![t] = "done"]
  /\ UNCHANGED <<upload, files, lockFile, fds, want, defers, cont, meta, backrefs, wr, names, pre>>

InitUUID == InitTasks(1)

NextUUID ==
  \/ \E v \in Versions, now \in Clocks, r \in Randoms : New(1, v, now, r)
  \/ Return(1)

SpecUUID == InitUUID /\ [][NextUUID]_vars

Generated == pc[1] = "done" /\ op[1].kind = "New" /\ res[1].err = "none"

\* C35: for every generated id u, Parse(String(u)) is u, String(u) has the
\* 8-4-4-4-12 lower-case hexadecimal form, the high nibble of byte 6 is 7 and
\* the two high bits of byte 8 are 10 whatever the random bytes are, and the
\* first 6 bytes are the big-endian epoch milliseconds of the generation.
C35_TimeOrderedId ==
  Generated =>
    LET u == res[1].uuid
        s == res[1].str
    IN  /\ res[1].parsed = [err |-> "none", bytes |-> u]
        /\ Len(s) = 36
        /\ \A i \in 1..Len(s) :
             IF i \in {9, 14, 19, 24} THEN s[i] = "-"
             ELSE \E k \in 1..16 : HexDigits[k] = s[i]
        /\ u[7] \div 16 = 7
        /\ u[9] \div 64 = 2
        /\ <<0>> \o BigEndian(SubSeq(u, 1, 6)) = op[1].now

\* an id made at clock 4660 with random bytes 255: the timestamp has leading
\* zeros, the version and variant bits replace random bits
C35_WitnessLeadingZeros ==
  /\ Generated
  /\ op[1].now = <<0, 0, 0, 4660>>
  /\ op[1].random = [i \in 1..10 |-> 255]
  /\ res[1].str = <<"0", "0", "0", "0", "0", "0", "0", "0", "-", "1", "2", "3", "4", "-",
                    "7", "f", "f", "f", "-", "b", "f", "f", "f", "-",
                    "f", "f", "f", "f", "f", "f", "f", "f", "f", "f", "f", "f">>

(***************************************************************************)
(* The path of a blob: GetFilename is called on ids, and on pairs of ids   *)
(* of one repository (one basedir, subdir and ext).                        *)
(***************************************************************************)
MaxId == 7
MaxPairId == 2

PathIds == UNION {[1..n -> {"a", "b"}] : n \in 0..MaxId}
PairIds == UNION {[1..n -> {"a", Zero, Space, Slash}] : n \in 0..MaxPairId}

\* a call of GetFilename
PathOf(t, id) ==
  /\ pc[t] = "idle"
  /\ op' = [op EXCEPT ![t] = [kind |-> "GetFilename", id |-> id]]
  /\ res' = [res EXCEPT ![t] = [err |-> "none", path |-> GetFilename(id)]]
  /\ pc' = [pc EXCEPT ![t] = "done"]
  /\ UNCHANGED <<upload, files, lockFile, fds, want, defers, cont, meta, backrefs, wr, names, pre>>

\* two calls of GetFilename on one repository
PathsOf(t, id1, id2) ==
  /\ pc[t] = "idle"
  /\ op' = [op EXCEPT ![t] = [kind |-> "GetFilenames", id |-> id1, other |-> id2]]
  /\ res' = [res EXCEPT ![t] = [err |-> "none", path |-> GetFilename(id1),
                                otherPath |-> GetFilename(id2)]]
  /\ pc' = [pc EXCEPT ![t] = "done"]
  /\ UNCHANGED <<upload, files, lockFile, fds, want, defers, cont, meta, backrefs, wr, names, pre>>

InitPath == InitTasks(1)

NextPath ==
  \/ \E id \in PathIds : PathOf(1, id)
  \/ \E id1 \in PairIds, id2 \in PairIds : PathsOf(1, id1, id2)
  \/ Return(1)

SpecPath == InitPath /\ [][NextPath]_vars

PathReturned == pc[1] = "done" /\ op[1].kind = "GetFilename"

\* the id padded on the left with zeros to at least 6 characters
ZeroPadded(id) ==
  IF Len(id) >= 6 THEN id ELSE [i \in 1..(6 - Len(id)) |-> "0"] \o id

\* p0/p1/p2/<id'>.<ext>, p0, p1, p2 the first three 2-character slices of id'
ThreeLevelPath(id) ==
  LET p == ZeroPadded(id)
  IN  SubSeq(p, 1, 2) \o <<"/">> \o SubSeq(p, 3, 4) \o <<"/">> \o SubSeq(p, 5, 6) \o <<"/">>
        \o p \o <<".">> \o ExtBin

\* C36: for every blob id GetFilename(id) is p0/p1/p2/<id'>.<ext> below
\* basedir/subdir, with exactly three prefix directories, also for ids of 6
\* characters or fewer.
C36_ThreePrefixDirectories == PathReturned => res[1].path = ThreeLevelPath(op[1].id)

\* ids of more than 6 characters get the three prefix directories
C36_ThreePrefixesAboveSix ==
  (PathReturned /\ Len(op[1].id) > 6) => res[1].path = ThreeLevelPath(op[1].id)

\* an id of 6 characters is stored below two prefix directories only
C36_WitnessTwoPrefixes ==
  /\ PathReturned
  /\ op[1].id = <<"a", "b", "a", "b", "a", "b">>
  /\ res[1].path = <<"a", "b", "/", "a", "b", "/", "a", "b", "a", "b", "a", "b", ".", "b", "i", "n">>

(***************************************************************************)
(* C37: no lock is leaked.  A lock is held through an open description of  *)
(* its lock file; a release that is still to run is an entry of defers.    *)
(***************************************************************************)
\* C37: every Store, Fetch and Delete releases every lock it acquired on every
\* exit path, success or error: in every state where no operation is in
\* progress no meta, data or cache lock is held.
C37_NoLockLeaked ==
  Quiescent => (fds = {} /\ \A t \in Tasks : defers[t] = <<>>)

\* all calls have returned, one of them a Store without an error, one a Fetch
\* that went through the cache lock, and one with the error of an absent blob
\* that it met under its meta lock
C37_WitnessAllReturned ==
  /\ \A t \in Tasks : pc[t] = "done"
  /\ \E t \in Tasks : op[t].kind = "Store" /\ res[t].err = "none"
  /\ \E t \in Tasks : op[t].kind = "Fetch" /\ res[t].err = "none"
  /\ \E t \in Tasks : res[t].err = "NotExist"

(***************************************************************************)
(* C38: the channels of the upload fan-out are closed only after the       *)
(* per-file tasks have finished, so that no task sends on a closed channel.*)
(***************************************************************************)
\* a per-file task that was spawned and has not run its wg.Done()
Running(i) == i \in DOMAIN upload.file /\ upload.file[i] \notin {"none", "done"}

\* the step of per-file task i is a send on a closed channel: an error of a
\* check on the closed error channel, the media on the closed media channel,
\* or the recovered panic on the closed error channel
SendsOnClosed(i) ==
  /\ i \in DOMAIN upload.file
  /\ i \in DOMAIN upload'.file
  /\ \/ upload.file[i] \in {"check", "recheck"} /\ upload.errCh.closed
        /\ upload'.file[i] = "recover"
     \/ upload.file[i] = "send" /\ upload.mediaCh = "closed" /\ upload'.file[i] = "recover"
     \/ upload.file[i] = "recover" /\ upload.errCh.closed /\ upload'.crashed

\* C38: no per-file task ever sends on a channel that has been closed, and the
\* media and error channels are closed only after every spawned per-file task
\* has finished, also when the manager task stops early on a cancelled token.
C38_NoSendOnClosed ==
  [][/\ \A i \in 1..MaxFiles : ~SendsOnClosed(i)
     /\ (upload.manager # "none" /\ upload'.manager # "none"
           /\ (upload'.errCh.closed \/ upload'.mediaCh = "closed"))
          => \A i \in 1..MaxFiles : ~Running(i)]_vars

\* what holds: a manager task that spawned a task for every file closes the
\* channels after all of them have finished
C38_CloseAfterWait ==
  (upload.manager \in {"closeErr", "closeMedia", "done"}
     /\ upload.next > Len(upload.form.files))
    => \A i \in 1..MaxFiles : ~Running(i)

\* the manager task stopped early and closed the error channel while a
\* per-file task was at its first check
C38_WitnessClosedEarly ==
  /\ upload.manager \in {"closeMedia", "done"}
  /\ upload.errCh.closed
  /\ \E i \in 1..MaxFiles : Running(i) /\ upload.file[i] = "check"

PathsReturned == pc[1] = "done" /\ op[1].kind = "GetFilenames"

\* C39: within one repository the mapping from blob id to file path is
\* injective: two ids that differ as byte sequences never map to the same
\* file, short ids that are zero-padded and ids with "/" included.
C39_PathInjective ==
  (PathsReturned /\ op[1].id # op[1].other) => res[1].path # res[1].otherPath

\* an id the path keeps as it is: no separator, no space, no zero in front
KeptId(id) ==
  /\ \A i \in 1..Len(id) : id[i] \notin {Slash, Space}
  /\ id # <<>> /\ id[1] # Zero

\* what holds: ids without separator, space and leading zero have paths of their own
C39_PathInjectiveOnKeptIds ==
  (PathsReturned /\ op[1].id # op[1].other /\ KeptId(op[1].id) /\ KeptId(op[1].other))
    => res[1].path # res[1].otherPath

\* the ids "a" and "/a" name one file
C39_WitnessSamePath ==
  /\ PathsReturned
  /\ op[1].id = <<"a">> /\ op[1].other = <<Slash, "a">>
  /\ res[1].path = res[1].otherPath

(***************************************************************************)
(* C40: a media-service Fetch that runs next to Store and Delete calls on  *)
(* the same media id or the same content hash.  Media A is stored; every   *)
(* task makes one call: Fetch(A) or Delete(A) by the owner, or a Store of  *)
(* A or of B, which has the content of A.                                  *)
(***************************************************************************)
RaceTasks == 3
RaceFiles == Stored(EmptyFiles, MediaA)
RaceMedias == {MediaA, MediaB}

InitRace ==
  /\ files = RaceFiles
  /\ lockFile = <<>>
  /\ fds = {}
  /\ pc = [t \in 1..RaceTasks |-> "idle"]
  /\ op = [t \in 1..RaceTasks |-> NoOp]
  /\ want = [t \in 1..RaceTasks |-> NoLock]
  /\ defers = [t \in 1..RaceTasks |-> <<>>]
  /\ cont = [t \in 1..RaceTasks |-> "done"]
  /\ meta = [t \in 1..RaceTasks |-> NoMeta]
  /\ backrefs = [t \in 1..RaceTasks |-> <<>>]
  /\ wr = [t \in 1..RaceTasks |-> NoWrite]
  /\ names = [t \in 1..RaceTasks |-> {}]
  /\ res = [t \in 1..RaceTasks |-> NoRes]
  /\ pre = RaceFiles
  /\ upload = NoUpload

\* mediaSvc.Fetch: the call of the media service, which resizes nothing
MediaFetch(t, id, user) == Fetch(t, id, user, 0)

NextRace ==
  \/ \E t \in 1..RaceTasks, m \in RaceMedias : Store(t, m)
  \/ \E t \in 1..RaceTasks : MediaFetch(t, MediaA.meta.ID, User(Alice))
  \/ \E t \in 1..RaceTasks : Delete(t, MediaA.meta.ID, User(Alice))
  \/ \E t \in 1..RaceTasks : flockOpen(t)
  \/ \E t \in 1..RaceTasks : flockGranted(t)
  \/ \E t \in 1..RaceTasks : releaseRemove(t)
  \/ \E t \in 1..RaceTasks : releaseClose(t)
  \/ \E t \in 1..RaceTasks : storeDataExists(t)
  \/ \E t \in 1..RaceTasks : storeData(t)
  \/ \E t \in 1..RaceTasks : storeMetaExists(t)
  \/ \E t \in 1..RaceTasks : storeMeta(t)
  \/ \E t \in 1..RaceTasks : fetchBackrefsExists(t)
  \/ \E t \in 1..RaceTasks : fetchBackrefsFetch(t)
  \/ \E t \in 1..RaceTasks : storeBackrefsAdd(t)
  \/ \E t \in 1..RaceTasks : blobWrite(t)
  \/ \E t \in 1..RaceTasks : fetchMeta(t)
  \/ \E t \in 1..RaceTasks : fetchData(t)
  \/ \E t \in 1..RaceTasks : pruneDataDelete(t)
  \/ \E t \in 1..RaceTasks : pruneBackrefDelete(t)
  \/ \E t \in 1..RaceTasks : pruneBackrefStore(t)
  \/ \E t \in 1..RaceTasks : deleteMeta(t)
  \/ \E t \in 1..RaceTasks : cacheWalk(t)
  \/ \E t \in 1..RaceTasks : cacheRemove(t)

SpecRace == InitRace /\ [][NextRace]_vars

\* the media-service Fetch of task t has returned a media
Fetched(t) == pc[t] = "done" /\ op[t].kind = "Fetch" /\ res[t].err = "none"

\* C40: a Fetch(id) that runs concurrently with Store or Delete calls on the
\* same media id or content hash fails with an error or returns the complete
\* media: the meta of the id with the data whose hash is the hash recorded in
\* that meta, never missing, partial or foreign data.
C40_FetchComplete ==
  \A t \in Tasks :
    Fetched(t) =>
      /\ res[t].media.meta.ID = op[t].id
      /\ Sha256B32(res[t].media.data) = meta[t].Hash
      /\ res[t].media = MediaA

\* a Fetch has returned the zero bytes of a data blob another task's Store
\* had just created
C40_WitnessTornData ==
  \E t \in Tasks :
    /\ Fetched(t)
    /\ res[t].media.data = [i \in 1..Len(MediaA.data) |-> ZeroByte]

====
